---------------------------- MODULE Spec2Model ----------------------------
(***************************************************************************)
(* Request normalisation for API Gateway proxy events (payload v1.0 "REST" *)
(* and payload v2.0 "HTTP"): event-kind detection, the two adapters, the   *)
(* shared accessor contract and the lazily parsed, memoised body.          *)
(*                                                                         *)
(* Text is modelled as a sequence of tokens (TLA+ strings): a token stands *)
(* for a run of characters that the code never looks inside of, apart from *)
(* the separators it splits on (";" " " "&" "=" "," and the JSON           *)
(* punctuation), which are tokens of their own.  Concatenation of text is  *)
(* concatenation of sequences, so "one,two" is <<"one", ",", "two">>.      *)
(*                                                                         *)
(* JavaScript values are records [t, v, a, f]: t the type tag, v the text  *)
(* of a scalar, a the entries of an array, f the own properties of an      *)
(* object as <<key, value>> pairs in insertion order.  Property keys that  *)
(* are only inherited from Object.prototype are outside the key sets used. *)
(***************************************************************************)
EXTENDS Integers, Sequences, FiniteSets, TLC

VARIABLES
    event,        \* the proxy event the request wraps (BaseRequest.event)
    adapter,      \* "none" before construction, then "rest" | "http" | "failed"
    rawQueryMap,  \* HttpApiRequest.rawQueryMap, built by the constructor
    parsedBody,   \* BaseRequest.parsedBody: Unset or a tagged parsed body
    cacheWrites,  \* number of assignments made to BaseRequest.parsedBody
    last,         \* the last call: operation, arguments, outcome
    calls         \* number of accessor calls made so far (capped)

vars ==
    <<event, adapter, rawQueryMap, parsedBody, cacheWrites, last, calls>>

\* Largest number of accessor calls counted on one request instance.
MaxCalls ==
    2

-----------------------------------------------------------------------------
(* JavaScript values *)

JsV(t, v) ==
    [t |-> t, v |-> v, a |-> <<>>, f |-> <<>>]

\* A property that the object does not have at all ("k" in obj is false).
Absent ==
    JsV("absent", <<>>)

Undefined ==
    JsV("undefined", <<>>)

Null ==
    JsV("null", <<>>)

StrV(s) ==
    JsV("str", s)

NumV(s) ==
    JsV("num", s)

BoolV(s) ==
    JsV("bool", s)

ArrV(items) ==
    [t |-> "arr", v |-> <<>>, a |-> items, f |-> <<>>]

ObjV(pairs) ==
    [t |-> "obj", v |-> <<>>, a |-> <<>>, f |-> pairs]

\* x ?? d : only null and undefined (and a missing property, which reads as
\* undefined) give way to d.
Nullish(x) ==
    x.t \in {"absent", "undefined", "null"}

Coalesce(x, d) ==
    IF Nullish(x) THEN d ELSE x

\* What reading a property gives: a missing one reads as undefined.
Read(x) ==
    IF x.t = "absent" THEN Undefined ELSE x

\* JavaScript truthiness of the values used here.
Truthy(x) ==
    CASE Nullish(x) -> FALSE
      [] x.t = "str" -> x.v # <<>>
      [] x.t = "num" -> x.v # <<"0">>
      [] x.t = "bool" -> x.v = <<"true">>
      [] OTHER -> TRUE

\* "k" in obj, for an object value.
HasKey(obj, k) ==
    \E i \in 1..Len(obj.f) : obj.f[i][1] = k

\* obj[k] for an object value: the own property set last under k.
GetKey(obj, k) ==
    IF HasKey(obj, k)
    THEN LET i == CHOOSE j \in 1..Len(obj.f) :
                      /\ obj.f[j][1] = k
                      /\ \A l \in (j+1)..Len(obj.f) : obj.f[l][1] # k
         IN  obj.f[i][2]
    ELSE Absent

-----------------------------------------------------------------------------
(* Text *)

\* String.prototype.toLowerCase on one token: the tokens written with upper
\* case letters map to their lower case spelling, the others have none.
LowerTok(tok) ==
    CASE tok = "Content-Type" -> "content-type"
      [] tok = "CONTENT-TYPE" -> "content-type"
      [] tok = "X-Trace" -> "x-trace"
      [] tok = "Application/JSON" -> "application/json"
      [] tok = "APPLICATION/X-WWW-FORM-URLENCODED" -> "application/x-www-form-urlencoded"
      [] tok = "Text/Plain" -> "text/plain"
      [] OTHER -> tok

ToLowerCase(s) ==
    [i \in 1..Len(s) |-> LowerTok(s[i])]

\* Index of the first occurrence of tok in s at or after position from; 0 if none.
IndexFrom(s, tok, from) ==
    IF \E i \in from..Len(s) : s[i] = tok
    THEN CHOOSE i \in from..Len(s) :
             /\ s[i] = tok
             /\ \A j \in from..(i-1) : s[j] # tok
    ELSE 0

\* s.split(sep)[0]
SplitHead(s, sep) ==
    LET i == IndexFrom(s, sep, 1)
    IN  IF i = 0 THEN s ELSE SubSeq(s, 1, i - 1)

\* s.split(sep)
RECURSIVE Split(_, _)
Split(s, sep) ==
    LET i == IndexFrom(s, sep, 1)
    IN  IF i = 0
        THEN <<s>>
        ELSE <<SubSeq(s, 1, i - 1)>> \o Split(SubSeq(s, i + 1, Len(s)), sep)

\* String.prototype.trim: white space at both ends goes.
Trim(s) ==
    IF \A i \in 1..Len(s) : s[i] = " "
    THEN <<>>
    ELSE LET lo == CHOOSE i \in 1..Len(s) :
                       s[i] # " " /\ \A j \in 1..(i-1) : s[j] = " "
             hi == CHOOSE i \in 1..Len(s) :
                       s[i] # " " /\ \A j \in (i+1)..Len(s) : s[j] = " "
         IN  SubSeq(s, lo, hi)

\* Array.prototype.join(",") on an array of texts.
RECURSIVE Join(_)
Join(items) ==
    IF Len(items) = 0 THEN <<>>
    ELSE IF Len(items) = 1 THEN items[1]
    ELSE items[1] \o <<",">> \o Join(Tail(items))

\* obj[k] = v on a list of own properties: an existing key keeps its place.
SetProp(pairs, k, v) ==
    IF \E i \in 1..Len(pairs) : pairs[i][1] = k
    THEN [i \in 1..Len(pairs) |-> IF pairs[i][1] = k THEN <<k, v>> ELSE pairs[i]]
    ELSE Append(pairs, <<k, v>>)

-----------------------------------------------------------------------------
(* URLSearchParams, JSON.parse, base64 *)

\* Percent-decoding of one token of a query or form text.
UrlDecodeTok(tok) ==
    CASE tok = "+" -> " "
      [] tok = "%2C" -> ","
      [] OTHER -> tok

UrlDecode(s) ==
    [i \in 1..Len(s) |-> UrlDecodeTok(s[i])]

\* One "name=value" segment as <<name, value>>; a segment without "=" has
\* the empty value.
UrlPair(seg) ==
    LET i == IndexFrom(seg, "=", 1)
    IN  IF i = 0
        THEN <<UrlDecode(seg), <<>>>>
        ELSE <<UrlDecode(SubSeq(seg, 1, i - 1)), UrlDecode(SubSeq(seg, i + 1, Len(seg)))>>

\* new URLSearchParams(text): the list of <<name, value>> pairs in their
\* order; a leading "?" is dropped and empty segments are skipped.
URLSearchParams(text) ==
    LET body == IF Len(text) > 0 /\ text[1] = "?" THEN Tail(text) ELSE text
        segs == SelectSeq(Split(body, "&"), LAMBDA seg : seg # <<>>)
    IN  [i \in 1..Len(segs) |-> UrlPair(segs[i])]

\* params.getAll(key)
GetAll(params, key) ==
    LET hits == SelectSeq(params, LAMBDA p : p[1] = key)
    IN  [i \in 1..Len(hits) |-> hits[i][2]]

DQ ==
    "\""

NumToks ==
    {"0", "1", "2", "7"}

\* First position at or after i that holds no white space.
SkipWs(toks, i) ==
    IF \E j \in i..Len(toks) : toks[j] # " "
    THEN CHOOSE j \in i..Len(toks) :
             toks[j] # " " /\ \A l \in i..(j-1) : toks[l] = " "
    ELSE Len(toks) + 1

ParseFail ==
    [ok |-> FALSE, val |-> Undefined, next |-> 0]

ParseOk(val, next) ==
    [ok |-> TRUE, val |-> val, next |-> next]

\* Recursive descent over the JSON text: a value starting at position i.
RECURSIVE ParseValueAt(_, _), ParseMembers(_, _, _), ParseItems(_, _, _)
ParseValueAt(toks, i) ==
    IF i > Len(toks) THEN ParseFail
    ELSE CASE toks[i] = "null" -> ParseOk(Null, i + 1)
           [] toks[i] \in {"true", "false"} -> ParseOk(BoolV(<<toks[i]>>), i + 1)
           [] toks[i] \in NumToks -> ParseOk(NumV(<<toks[i]>>), i + 1)
           [] toks[i] = DQ ->
                LET j == IndexFrom(toks, DQ, i + 1)
                IN  IF j = 0 THEN ParseFail
                    ELSE ParseOk(StrV(SubSeq(toks, i + 1, j - 1)), j + 1)
           [] toks[i] = "{" ->
                LET k == SkipWs(toks, i + 1)
                IN  IF k <= Len(toks) /\ toks[k] = "}"
                    THEN ParseOk(ObjV(<<>>), k + 1)
                    ELSE ParseMembers(toks, k, <<>>)
           [] toks[i] = "[" ->
                LET k == SkipWs(toks, i + 1)
                IN  IF k <= Len(toks) /\ toks[k] = "]"
                    THEN ParseOk(ArrV(<<>>), k + 1)
                    ELSE ParseItems(toks, k, <<>>)
           [] OTHER -> ParseFail

ParseMembers(toks, i, acc) ==
    IF i > Len(toks) \/ toks[i] # DQ THEN ParseFail
    ELSE LET j == IndexFrom(toks, DQ, i + 1)
         IN  IF j = 0 THEN ParseFail
             ELSE LET key == SubSeq(toks, i + 1, j - 1)
                      c == SkipWs(toks, j + 1)
                  IN  IF c > Len(toks) \/ toks[c] # ":" THEN ParseFail
                      ELSE LET r == ParseValueAt(toks, SkipWs(toks, c + 1))
                               e == IF r.ok THEN SkipWs(toks, r.next) ELSE 0
                               got == SetProp(acc, key, r.val)
                           IN  IF ~r.ok \/ e > Len(toks) THEN ParseFail
                               ELSE IF toks[e] = "}" THEN ParseOk(ObjV(got), e + 1)
                               ELSE IF toks[e] = ","
                                    THEN ParseMembers(toks, SkipWs(toks, e + 1), got)
                               ELSE ParseFail

ParseItems(toks, i, acc) ==
    LET r == ParseValueAt(toks, i)
        e == IF r.ok THEN SkipWs(toks, r.next) ELSE 0
        got == Append(acc, r.val)
    IN  IF ~r.ok \/ e > Len(toks) THEN ParseFail
        ELSE IF toks[e] = "]" THEN ParseOk(ArrV(got), e + 1)
        ELSE IF toks[e] = "," THEN ParseItems(toks, SkipWs(toks, e + 1), got)
        ELSE ParseFail

\* JSON.parse(text): ok with the value, or not ok (a SyntaxError is thrown).
JSONParse(text) ==
    LET r == ParseValueAt(text, SkipWs(text, 1))
    IN  IF r.ok /\ SkipWs(text, r.next) = Len(text) + 1 THEN r ELSE ParseFail

\* Buffer.from(chunk, "base64").toString("utf8") on one token: the encodings
\* of the JSON texts used, nothing for characters outside the base64
\* alphabet, undecodable bytes for any other token.
B64DecodeTok(tok) ==
    CASE tok = "e30=" -> <<"{", "}">>
      [] tok = "e2ludmFsaWQ=" -> <<"{", "invalid">>
      [] tok = "eyJuZXN0ZWQiOnRydWV9" -> <<"{", DQ, "nested", DQ, ":", "true", "}">>
      [] tok \in {"{", "}", DQ, ":", ",", "&", " ", ";"} -> <<>>
      [] OTHER -> <<"<bytes>">>

RECURSIVE B64Decode(_)
B64Decode(s) ==
    IF s = <<>> THEN <<>> ELSE B64DecodeTok(Head(s)) \o B64Decode(Tail(s))

-----------------------------------------------------------------------------
(* Failures and outcomes *)

NoError ==
    [name |-> "none", message |-> <<>>, details |-> Undefined]

\* class UnsupportedEventError extends Error
UnsupportedEventError(message) ==
    [name |-> "UnsupportedEventError", message |-> message, details |-> Undefined]

\* class BodyParseError extends Error
BodyParseError(message) ==
    [name |-> "BodyParseError", message |-> message, details |-> Undefined]

\* An outcome of a call: a returned value, or a thrown failure.
Return(val) ==
    [err |-> NoError, val |-> val]

Throw(err) ==
    [err |-> err, val |-> Undefined]

-----------------------------------------------------------------------------
(* Event-kind detection and construction *)

\* Fault: detectEventKind making the REST check before the HTTP check.
detectEventKindRestFirst(e) ==
    IF e.httpMethod.t # "absent" /\ e.path.t # "absent"
    THEN Return(StrV(<<"v1">>))
    ELSE IF (e.version.t # "absent" /\ e.version = StrV(<<"2.0">>)) \/ e.rawPath.t # "absent"
    THEN Return(StrV(<<"v2">>))
    ELSE Throw(UnsupportedEventError(<<"Unsupported event shape">>))

\* Fault: detectEventKind testing event.rawPath for truth instead of presence.
detectEventKindTruthyRawPath(e) ==
    IF (e.version.t # "absent" /\ e.version = StrV(<<"2.0">>)) \/ Truthy(e.rawPath)
    THEN Return(StrV(<<"v2">>))
    ELSE IF e.httpMethod.t # "absent" /\ e.path.t # "absent"
    THEN Return(StrV(<<"v1">>))
    ELSE Throw(UnsupportedEventError(<<"Unsupported event shape">>))

\* detectEventKind(event): "v2", "v1", or UnsupportedEventError thrown.
detectEventKind(e) ==
    IF (e.version.t # "absent" /\ e.version = StrV(<<"2.0">>)) \/ e.rawPath.t # "absent"
    THEN Return(StrV(<<"v2">>))
    ELSE IF e.httpMethod.t # "absent" /\ e.path.t # "absent"
    THEN Return(StrV(<<"v1">>))
    ELSE Throw(UnsupportedEventError(<<"Unsupported event shape">>))

\* new RestApiRequest(event): the outcome of the constructor.
RestApiRequestNew(e) ==
    LET kind == detectEventKind(e)
    IN  IF kind.err # NoError THEN kind
        ELSE IF kind.val # StrV(<<"v1">>)
        THEN Throw(UnsupportedEventError(<<"Expected payload v1.0 event">>))
        ELSE Return(Undefined)

\* Fault: the HTTP constructor without its check of the detected kind.
HttpApiRequestNewUnchecked(e) ==
    LET kind == detectEventKind(e)
    IN  IF kind.err # NoError THEN kind ELSE Return(Undefined)

\* new HttpApiRequest(event): the outcome of the constructor.
HttpApiRequestNew(e) ==
    LET kind == detectEventKind(e)
    IN  IF kind.err # NoError THEN kind
        ELSE IF kind.val # StrV(<<"v2">>)
        THEN Throw(UnsupportedEventError(<<"Expected payload v2.0 event">>))
        ELSE Return(Undefined)

\* Fault: parseRawQuery keeping only the last value of a key.
parseRawQueryLastOnly(rawQuery) ==
    IF ~Truthy(rawQuery) THEN ObjV(<<>>)
    ELSE LET params == URLSearchParams(rawQuery.v)
         IN  ObjV([i \in 1..Len(params) |->
                      <<params[i][1], StrV(params[i][2])>>])

\* HttpApiRequest.parseRawQuery(rawQuery): key -> all its values joined by
\* commas, keys in first-seen order.
RECURSIVE parseRawQueryLoop(_, _, _)
parseRawQueryLoop(params, i, map) ==
    IF i > Len(params) THEN map
    ELSE LET key == params[i][1]
             allValues == GetAll(params, key)
         IN  IF Len(allValues) = 0
             THEN parseRawQueryLoop(params, i + 1, map)
             ELSE parseRawQueryLoop(params, i + 1, SetProp(map, key, StrV(Join(allValues))))

parseRawQuery(rawQuery) ==
    IF ~Truthy(rawQuery) THEN ObjV(<<>>)
    ELSE ObjV(parseRawQueryLoop(URLSearchParams(rawQuery.v), 1, <<>>))

-----------------------------------------------------------------------------
(* Adapter primitives *)

\* The first entry of a header mapping whose name matches, ignoring case;
\* 0 if there is none.
HeaderIndex(headers, normalizedHeaderName) ==
    IF \E i \in 1..Len(headers.f) : ToLowerCase(headers.f[i][1]) = normalizedHeaderName
    THEN CHOOSE i \in 1..Len(headers.f) :
             /\ ToLowerCase(headers.f[i][1]) = normalizedHeaderName
             /\ \A j \in 1..(i-1) : ToLowerCase(headers.f[j][1]) # normalizedHeaderName
    ELSE 0

\* HttpApiRequest.headerLookup
HttpHeaderLookup(e, normalizedHeaderName) ==
    LET headers == Coalesce(e.headers, ObjV(<<>>))
        i == HeaderIndex(headers, normalizedHeaderName)
    IN  IF i # 0 THEN Coalesce(headers.f[i][2], Undefined) ELSE Undefined

\* Fault: the REST lookup going on to the multi-value mapping when the
\* single-value match is null.
RestHeaderLookupPastNull(e, normalizedHeaderName) ==
    LET headers == Coalesce(e.headers, ObjV(<<>>))
        i == HeaderIndex(headers, normalizedHeaderName)
        multiHeaders == Coalesce(e.multiValueHeaders, ObjV(<<>>))
        m == HeaderIndex(multiHeaders, normalizedHeaderName)
        values == IF m # 0 THEN multiHeaders.f[m][2] ELSE Undefined
        first == IF values.t = "arr" /\ Len(values.a) > 0 THEN values.a[1] ELSE Undefined
    IN  IF i # 0 /\ ~Nullish(headers.f[i][2]) THEN headers.f[i][2]
        ELSE IF m # 0 THEN Coalesce(first, Undefined)
        ELSE Undefined

\* RestApiRequest.headerLookup
RestHeaderLookup(e, normalizedHeaderName) ==
    LET headers == Coalesce(e.headers, ObjV(<<>>))
        i == HeaderIndex(headers, normalizedHeaderName)
        multiHeaders == Coalesce(e.multiValueHeaders, ObjV(<<>>))
        m == HeaderIndex(multiHeaders, normalizedHeaderName)
        values == IF m # 0 THEN multiHeaders.f[m][2] ELSE Undefined
        first == IF values.t = "arr" /\ Len(values.a) > 0 THEN values.a[1] ELSE Undefined
    IN  IF i # 0 THEN Coalesce(headers.f[i][2], Undefined)
        ELSE IF m # 0 THEN Coalesce(first, Undefined)
        ELSE Undefined

headerLookup(ad, e, normalizedHeaderName) ==
    IF ad = "rest" THEN RestHeaderLookup(e, normalizedHeaderName)
    ELSE HttpHeaderLookup(e, normalizedHeaderName)

\* Fault: the REST lookup returning the first multi-value entry alone.
RestGetQueryParamValueFirst(e, key) ==
    LET multiValues == e.multiValueQueryStringParameters
        entry == IF Nullish(multiValues) THEN Undefined ELSE Read(GetKey(multiValues, key))
        singles == Coalesce(e.queryStringParameters, Undefined)
    IN  IF Truthy(entry) /\ Len(entry.a) > 0
        THEN entry.a[1]
        ELSE IF Truthy(singles) /\ HasKey(singles, key)
        THEN Coalesce(GetKey(singles, key), Undefined)
        ELSE Undefined

\* RestApiRequest.getQueryParamValue
RestGetQueryParamValue(e, key) ==
    LET multiValues == e.multiValueQueryStringParameters
        entry == IF Nullish(multiValues) THEN Undefined ELSE Read(GetKey(multiValues, key))
        singles == Coalesce(e.queryStringParameters, Undefined)
    IN  IF Truthy(entry) /\ Len(entry.a) > 0
        THEN StrV(Join([i \in 1..Len(entry.a) |-> entry.a[i].v]))
        ELSE IF Truthy(singles) /\ HasKey(singles, key)
        THEN Coalesce(GetKey(singles, key), Undefined)
        ELSE Undefined

\* Fault: the HTTP lookup asking the gateway's mapping before the raw query.
HttpGetQueryParamValueGatewayFirst(e, map, key) ==
    LET raw == Read(GetKey(map, key))
        fromEvent == Coalesce(e.queryStringParameters, ObjV(<<>>))
    IN  IF HasKey(fromEvent, key)
        THEN Coalesce(GetKey(fromEvent, key), Undefined)
        ELSE IF raw.t # "undefined" THEN raw
        ELSE Undefined

\* HttpApiRequest.getQueryParamValue
HttpGetQueryParamValue(e, map, key) ==
    LET raw == Read(GetKey(map, key))
        fromEvent == Coalesce(e.queryStringParameters, ObjV(<<>>))
    IN  IF raw.t # "undefined" THEN raw
        ELSE IF HasKey(fromEvent, key)
        THEN Coalesce(GetKey(fromEvent, key), Undefined)
        ELSE Undefined

getQueryParamValue(ad, e, map, key) ==
    IF ad = "rest" THEN RestGetQueryParamValue(e, key)
    ELSE HttpGetQueryParamValue(e, map, key)

\* Fault: getPathParam answering with whatever is stored under a present
\* key, a null included.
getPathParamKeyPresent(e, key, defaultValue) ==
    LET params == Coalesce(e.pathParameters, ObjV(<<>>))
    IN  IF HasKey(params, key) THEN GetKey(params, key) ELSE defaultValue

\* RestApiRequest.getPathParam and HttpApiRequest.getPathParam (the same code)
getPathParam(e, key, defaultValue) ==
    LET params == Coalesce(e.pathParameters, ObjV(<<>>))
        value == Read(GetKey(params, key))
    IN  Coalesce(value, defaultValue)

-----------------------------------------------------------------------------
(* BaseRequest: the shared accessor contract *)

\* BaseRequest.getQueryStr
getQueryStr(ad, e, map, key, defaultValue) ==
    Coalesce(getQueryParamValue(ad, e, map, key), defaultValue)

\* BaseRequest.getQueryStrs
RECURSIVE getQueryStrsLoop(_, _, _, _, _, _)
getQueryStrsLoop(ad, e, map, keys, defaultValue, result) ==
    IF keys = <<>> THEN result
    ELSE getQueryStrsLoop(ad, e, map, Tail(keys), defaultValue,
             SetProp(result, Head(keys), getQueryStr(ad, e, map, Head(keys), defaultValue)))

\* Fault: getQueryStrs storing the adapter's value without the default.
getQueryStrsNoDefault(ad, e, map, keys, defaultValue) ==
    ObjV(getQueryStrsLoop(ad, e, map, keys, Undefined, <<>>))

getQueryStrs(ad, e, map, keys, defaultValue) ==
    ObjV(getQueryStrsLoop(ad, e, map, keys, defaultValue, <<>>))

\* Fault: getHeader passing the requested name on as it was given.
getHeaderNoLower(ad, e, name, defaultValue) ==
    Coalesce(headerLookup(ad, e, name), defaultValue)

\* BaseRequest.getHeader
getHeader(ad, e, name, defaultValue) ==
    Coalesce(headerLookup(ad, e, ToLowerCase(name)), defaultValue)

\* Fault: getRawBody without the base64 decoding.
getRawBodyNoDecode(e) ==
    LET bodyValue == e.body
    IN  IF Nullish(bodyValue) \/ bodyValue = StrV(<<>>) THEN Undefined
        ELSE bodyValue

\* BaseRequest.getMethod and getPath as the adapters override them.
getMethod(ad, e) ==
    IF ad = "rest" THEN Read(e.httpMethod)
    ELSE IF Nullish(e.requestContext) THEN Undefined
    ELSE IF Nullish(GetKey(e.requestContext, <<"http">>)) THEN Undefined
    ELSE Read(GetKey(GetKey(e.requestContext, <<"http">>), <<"method">>))

getPath(ad, e) ==
    IF ad = "rest" THEN Read(e.path) ELSE Read(e.rawPath)

\* Fault: a timeEpoch field that is no number ends the lookup.
getRequestTimeEpochNoFallback(e) ==
    LET ctx == e.requestContext
    IN  IF ~Truthy(ctx) THEN Undefined
        ELSE IF HasKey(ctx, <<"timeEpoch">>)
        THEN IF GetKey(ctx, <<"timeEpoch">>).t = "num"
             THEN GetKey(ctx, <<"timeEpoch">>) ELSE Undefined
        ELSE IF HasKey(ctx, <<"requestTimeEpoch">>)
                  /\ GetKey(ctx, <<"requestTimeEpoch">>).t = "num"
        THEN GetKey(ctx, <<"requestTimeEpoch">>)
        ELSE Undefined

\* BaseRequest.getRequestTimeEpoch
getRequestTimeEpoch(e) ==
    LET ctx == e.requestContext
    IN  IF ~Truthy(ctx) THEN Undefined
        ELSE IF HasKey(ctx, <<"timeEpoch">>) /\ GetKey(ctx, <<"timeEpoch">>).t = "num"
        THEN GetKey(ctx, <<"timeEpoch">>)
        ELSE IF HasKey(ctx, <<"requestTimeEpoch">>)
                  /\ GetKey(ctx, <<"requestTimeEpoch">>).t = "num"
        THEN GetKey(ctx, <<"requestTimeEpoch">>)
        ELSE Undefined

\* BaseRequest.getRawBody
getRawBody(e) ==
    LET bodyValue == e.body
    IN  IF Nullish(bodyValue) \/ bodyValue = StrV(<<>>) THEN Undefined
        ELSE IF Truthy(Read(e.isBase64Encoded)) THEN StrV(B64Decode(bodyValue.v))
        ELSE bodyValue

\* The parsed-body cache: not yet set, or { kind, value }.
Unset ==
    [kind |-> "unset", value |-> Undefined]

ParsedBody(kind, value) ==
    [kind |-> kind, value |-> value]

\* Fault: parseFormBody keeping every value of a repeated key as a list.
parseFormBodyAccumulate(rawBody) ==
    LET params == URLSearchParams(rawBody.v)
        valueOf(key) ==
            IF Len(GetAll(params, key)) = 1
            THEN StrV(GetAll(params, key)[1])
            ELSE ArrV([j \in 1..Len(GetAll(params, key)) |-> StrV(GetAll(params, key)[j])])
        RECURSIVE loop(_, _)
        loop(i, result) ==
            IF i > Len(params) THEN result
            ELSE loop(i + 1, SetProp(result, params[i][1], valueOf(params[i][1])))
    IN  ObjV(loop(1, <<>>))

\* BaseRequest.parseFormBody: each key keeps its last value.
RECURSIVE parseFormBodyLoop(_, _, _)
parseFormBodyLoop(params, i, result) ==
    IF i > Len(params) THEN result
    ELSE LET key == params[i][1]
             values == GetAll(params, key)
             lastValue == IF Len(values) > 0 THEN values[Len(values)] ELSE <<>>
         IN  parseFormBodyLoop(params, i + 1, SetProp(result, key, StrV(lastValue)))

parseFormBody(rawBody) ==
    ObjV(parseFormBodyLoop(URLSearchParams(rawBody.v), 1, <<>>))

\* Fault: the content type compared without trimming.
normalizedContentTypeNoTrim(ad, e) ==
    LET contentTypeHeader == getHeader(ad, e, <<"content-type">>, Undefined)
    IN  IF Nullish(contentTypeHeader) THEN Undefined
        ELSE StrV(ToLowerCase(SplitHead(contentTypeHeader.v, ";")))

\* The content type ensureParsedBody decides on:
\* contentTypeHeader?.split(";")[0]?.trim().toLowerCase()
normalizedContentType(ad, e) ==
    LET contentTypeHeader == getHeader(ad, e, <<"content-type">>, Undefined)
    IN  IF Nullish(contentTypeHeader) THEN Undefined
        ELSE StrV(ToLowerCase(Trim(SplitHead(contentTypeHeader.v, ";"))))

\* What ensureParsedBody did: the cache after the call, the failure thrown,
\* if any, and the number of assignments it made to the cache.
Parsed(cache, err, writes) ==
    [cache |-> cache, err |-> err, writes |-> writes]

\* Fault: a JSON parse failure swallowed and the body kept as text.
cacheJsonSwallow(cache, rawBody, parsed) ==
    IF parsed.ok
    THEN Parsed(ParsedBody("json", parsed.val), NoError, 1)
    ELSE Parsed(ParsedBody("text", rawBody), NoError, 1)

\* Fault: a JSON parse failure that leaves a json entry without a value in
\* the cache before it is thrown.
cacheJsonPoison(cache, rawBody, parsed) ==
    IF parsed.ok
    THEN Parsed(ParsedBody("json", parsed.val), NoError, 1)
    ELSE Parsed(ParsedBody("json", Undefined), BodyParseError(<<"SyntaxError">>), 1)

\* The JSON branch of ensureParsedBody, given what JSON.parse(rawBody) did.
cacheJson(cache, rawBody, parsed) ==
    IF parsed.ok
    THEN Parsed(ParsedBody("json", parsed.val), NoError, 1)
    ELSE Parsed(cache, BodyParseError(<<"SyntaxError">>), 0)

\* Fault: ensureParsedBody without the test of the cache.
parseBodyNoMemo(cache, rawBody, contentType) ==
    IF ~Truthy(rawBody)
    THEN Parsed(ParsedBody("empty", Undefined), NoError, 1)
    ELSE IF contentType = StrV(<<"application/json">>)
    THEN cacheJson(cache, rawBody, JSONParse(rawBody.v))
    ELSE IF contentType = StrV(<<"application/x-www-form-urlencoded">>)
    THEN Parsed(ParsedBody("form", parseFormBody(rawBody)), NoError, 1)
    ELSE Parsed(ParsedBody("text", rawBody), NoError, 1)

\* Fault: ensureParsedBody taking only an absent raw body as empty.
parseBodyUndefinedOnly(cache, rawBody, contentType) ==
    IF cache # Unset THEN Parsed(cache, NoError, 0)
    ELSE IF rawBody = Undefined
    THEN Parsed(ParsedBody("empty", Undefined), NoError, 1)
    ELSE IF contentType = StrV(<<"application/json">>)
    THEN cacheJson(cache, rawBody, JSONParse(rawBody.v))
    ELSE IF contentType = StrV(<<"application/x-www-form-urlencoded">>)
    THEN Parsed(ParsedBody("form", parseFormBody(rawBody)), NoError, 1)
    ELSE Parsed(ParsedBody("text", rawBody), NoError, 1)

\* ensureParsedBody, given the raw body and the normalised content type.
parseBody(cache, rawBody, contentType) ==
    IF cache # Unset THEN Parsed(cache, NoError, 0)
    ELSE IF ~Truthy(rawBody)
    THEN Parsed(ParsedBody("empty", Undefined), NoError, 1)
    ELSE IF contentType = StrV(<<"application/json">>)
    THEN cacheJson(cache, rawBody, JSONParse(rawBody.v))
    ELSE IF contentType = StrV(<<"application/x-www-form-urlencoded">>)
    THEN Parsed(ParsedBody("form", parseFormBody(rawBody)), NoError, 1)
    ELSE Parsed(ParsedBody("text", rawBody), NoError, 1)

\* BaseRequest.ensureParsedBody
ensureParsedBody(ad, e, cache) ==
    parseBody(cache, getRawBody(e), normalizedContentType(ad, e))

\* value[key] for a parsed JSON object or array.
ArrayIndex(key) ==
    CASE key = <<"0">> -> 1
      [] key = <<"1">> -> 2
      [] OTHER -> 0

Lookup(value, key) ==
    IF value.t = "arr"
    THEN IF ArrayIndex(key) \in 1..Len(value.a) THEN value.a[ArrayIndex(key)] ELSE Absent
    ELSE GetKey(value, key)

\* Fault: getInput without its branch for form bodies.
getInputFromNoForm(body, key, defaultValue) ==
    IF body.kind = "json" /\ body.value.t \in {"obj", "arr"}
    THEN Coalesce(Lookup(body.value, key), defaultValue)
    ELSE defaultValue

\* Fault: getInput giving way to the default on every falsy value (|| for ??).
getInputFromFalsy(body, key, defaultValue) ==
    IF body.kind = "json" /\ body.value.t \in {"obj", "arr"}
    THEN IF Truthy(Lookup(body.value, key)) THEN Lookup(body.value, key) ELSE defaultValue
    ELSE IF body.kind = "form"
    THEN IF Truthy(GetKey(body.value, key)) THEN GetKey(body.value, key) ELSE defaultValue
    ELSE defaultValue

\* BaseRequest.getInput, given the parsed body ensureParsedBody returned.
getInputFrom(body, key, defaultValue) ==
    IF body.kind = "json" /\ body.value.t \in {"obj", "arr"}
    THEN Coalesce(Lookup(body.value, key), defaultValue)
    ELSE IF body.kind = "form"
    THEN Coalesce(GetKey(body.value, key), defaultValue)
    ELSE defaultValue

\* What a call did: the cache after it, its outcome, and the number of
\* assignments it made to the cache.
Done(cache, out, writes) ==
    [cache |-> cache, out |-> out, writes |-> writes]

\* getInput, given what ensureParsedBody did.
getInputOf(r, key, defaultValue) ==
    IF r.err # NoError THEN Done(r.cache, Throw(r.err), r.writes)
    ELSE Done(r.cache, Return(getInputFrom(r.cache, key, defaultValue)), r.writes)

\* BaseRequest.getInput
getInput(ad, e, cache, key, defaultValue) ==
    getInputOf(ensureParsedBody(ad, e, cache), key, defaultValue)

\* BaseRequest.getInputs: getInput for each key in turn; the first failure
\* ends the loop.
RECURSIVE getInputsLoop(_, _, _, _, _, _, _), getInputsStep(_, _, _, _, _, _, _)
getInputsLoop(ad, e, cache, keys, defaultValue, result, writes) ==
    IF keys = <<>> THEN Done(cache, Return(ObjV(result)), writes)
    ELSE getInputsStep(ad, e, keys, defaultValue, result, writes,
                       getInput(ad, e, cache, Head(keys), defaultValue))

getInputsStep(ad, e, keys, defaultValue, result, writes, r) ==
    IF r.out.err # NoError THEN Done(r.cache, r.out, writes + r.writes)
    ELSE getInputsLoop(ad, e, r.cache, Tail(keys), defaultValue,
                       SetProp(result, Head(keys), r.out.val), writes + r.writes)

getInputs(ad, e, cache, keys, defaultValue) ==
    getInputsLoop(ad, e, cache, keys, defaultValue, <<>>, 0)

\* Fault: getJsonBody returning the cached value whatever its tag.
getJsonBodyOfAnyKind(r) ==
    IF r.err # NoError THEN Done(r.cache, Throw(r.err), r.writes)
    ELSE Done(r.cache, Return(r.cache.value), r.writes)

\* getJsonBody, given what ensureParsedBody did.
getJsonBodyOf(r) ==
    IF r.err # NoError THEN Done(r.cache, Throw(r.err), r.writes)
    ELSE IF r.cache.kind = "json" THEN Done(r.cache, Return(r.cache.value), r.writes)
    ELSE Done(r.cache, Return(Undefined), r.writes)

\* BaseRequest.getJsonBody
getJsonBody(ad, e, cache) ==
    getJsonBodyOf(ensureParsedBody(ad, e, cache))

-----------------------------------------------------------------------------
(* Validation *)

\* class ValidationError extends Error, with a details payload.
ValidationError(message, details) ==
    [name |-> "ValidationError", message |-> message, details |-> details]

\* A failure as the value a catch clause holds.
ErrAsValue(err) ==
    [t |-> err.name, v |-> err.message, a |-> <<>>, f |-> <<>>]

\* The validator capability, validator.validate(data), for the behaviours a
\* validator can show: return the data, return a transformed value, reject
\* with a ValidationError, throw another Error, throw a value that is no Error.
ValidatorModes ==
    {"pass", "strip", "reject", "crash", "crashRaw"}

ValidatorRun(mode, data) ==
    CASE mode = "pass" -> Return(data)
      [] mode = "strip" -> Return(ObjV(<<<<<<"stripped">>, data>>>>))
      [] mode = "reject" ->
           Throw(ValidationError(<<"Validation failed">>, ArrV(<<StrV(<<"issue">>)>>)))
      [] mode = "crash" ->
           Throw([name |-> "Error", message |-> <<"boom">>, details |-> Undefined])
      [] OTHER ->
           Throw([name |-> "nonError", message |-> <<"oops">>, details |-> Undefined])

\* Fault: validate without its catch clause; every failure of the validator
\* goes on as it is.
normalizeFailureRethrow(r) ==
    r

\* Fault: the catch clause without its instanceof test; a ValidationError of
\* the validator is wrapped like any other failure.
normalizeFailureRewrap(r) ==
    IF r.err = NoError THEN r
    ELSE IF r.err.name = "nonError"
    THEN Throw(ValidationError(<<"Validation failed">>, ErrAsValue(r.err)))
    ELSE Throw(ValidationError(r.err.message, ErrAsValue(r.err)))

\* The try/catch around validator.validate(data): a ValidationError goes on
\* as it is, any other failure is wrapped into one.
normalizeFailure(r) ==
    IF r.err = NoError THEN r
    ELSE IF r.err.name = "ValidationError" THEN r
    ELSE IF r.err.name = "nonError"
    THEN Throw(ValidationError(<<"Validation failed">>, ErrAsValue(r.err)))
    ELSE Throw(ValidationError(r.err.message, ErrAsValue(r.err)))

\* validate with source "body", given what getJsonBody did.
validateBody(body, mode) ==
    IF body.out.err # NoError THEN body
    ELSE Done(body.cache, normalizeFailure(ValidatorRun(mode, body.out.val)), body.writes)

\* Fault: validate returning the data it resolved in place of what the
\* validator returned.
returnInput(data, out) ==
    IF out.err = NoError THEN Return(data) ELSE out

validateBodyReturnsInput(body, mode) ==
    IF body.out.err # NoError THEN body
    ELSE Done(body.cache,
              returnInput(body.out.val, normalizeFailure(ValidatorRun(mode, body.out.val))),
              body.writes)

validateReturnsInput(ad, e, cache, mode, source) ==
    CASE source = "body" -> validateBodyReturnsInput(getJsonBody(ad, e, cache), mode)
      [] source = "query" ->
           Done(cache,
                returnInput(Coalesce(e.queryStringParameters, ObjV(<<>>)),
                    normalizeFailure(
                        ValidatorRun(mode, Coalesce(e.queryStringParameters, ObjV(<<>>))))),
                0)
      [] OTHER ->
           Done(cache,
                returnInput(Coalesce(e.pathParameters, ObjV(<<>>)),
                    normalizeFailure(
                        ValidatorRun(mode, Coalesce(e.pathParameters, ObjV(<<>>))))),
                0)

\* Fault: validate handing a null mapping to the validator as it is.
validateNoEmptyMapping(ad, e, cache, mode, source) ==
    CASE source = "body" -> validateBody(getJsonBody(ad, e, cache), mode)
      [] source = "query" ->
           Done(cache, normalizeFailure(ValidatorRun(mode, Read(e.queryStringParameters))), 0)
      [] OTHER ->
           Done(cache, normalizeFailure(ValidatorRun(mode, Read(e.pathParameters))), 0)

\* Fault: validate resolving the JSON body before it looks at the source.
validateAfterBody(r, e, mode, source) ==
    IF r.out.err # NoError THEN r
    ELSE CASE source = "body" -> validateBody(r, mode)
           [] source = "query" ->
                Done(r.cache,
                     normalizeFailure(
                         ValidatorRun(mode, Coalesce(e.queryStringParameters, ObjV(<<>>)))),
                     r.writes)
           [] OTHER ->
                Done(r.cache,
                     normalizeFailure(
                         ValidatorRun(mode, Coalesce(e.pathParameters, ObjV(<<>>)))),
                     r.writes)

validateResolvesBodyFirst(ad, e, cache, mode, source) ==
    validateAfterBody(getJsonBody(ad, e, cache), e, mode, source)

\* BaseRequest.validate
validate(ad, e, cache, mode, source) ==
    CASE source = "body" -> validateBody(getJsonBody(ad, e, cache), mode)
      [] source = "query" ->
           Done(cache,
                normalizeFailure(
                    ValidatorRun(mode, Coalesce(e.queryStringParameters, ObjV(<<>>)))),
                0)
      [] OTHER ->
           Done(cache,
                normalizeFailure(
                    ValidatorRun(mode, Coalesce(e.pathParameters, ObjV(<<>>)))),
                0)

-----------------------------------------------------------------------------
(* Response builders *)

\* JSON.stringify on the text of a string: a double quote is escaped.
EscapeTok(tok) ==
    IF tok = DQ THEN "\\\"" ELSE tok

RECURSIVE Escaped(_)
Escaped(toks) ==
    IF toks = <<>> THEN <<>> ELSE <<EscapeTok(Head(toks))>> \o Escaped(Tail(toks))

\* JSON.stringify: the text of a value.  Inside an array undefined is written
\* as null; a member whose value is undefined is left out.
RECURSIVE StringifyText(_), StringifyItems(_, _), StringifyMembers(_, _, _)
StringifyText(v) ==
    CASE v.t = "str" -> <<DQ>> \o Escaped(v.v) \o <<DQ>>
      [] v.t \in {"num", "bool"} -> v.v
      [] v.t = "arr" -> <<"[">> \o StringifyItems(v.a, 1) \o <<"]">>
      [] v.t = "obj" -> <<"{">> \o StringifyMembers(v.f, 1, FALSE) \o <<"}">>
      [] OTHER -> <<"null">>

StringifyItems(items, i) ==
    IF i > Len(items) THEN <<>>
    ELSE (IF i > 1 THEN <<",">> ELSE <<>>) \o StringifyText(items[i])
             \o StringifyItems(items, i + 1)

StringifyMembers(pairs, i, written) ==
    IF i > Len(pairs) THEN <<>>
    ELSE IF pairs[i][2].t \in {"undefined", "absent"}
    THEN StringifyMembers(pairs, i + 1, written)
    ELSE (IF written THEN <<",">> ELSE <<>>)
             \o <<DQ>> \o Escaped(pairs[i][1])
             \o <<DQ, ":">> \o StringifyText(pairs[i][2])
             \o StringifyMembers(pairs, i + 1, TRUE)

\* JSON.stringify(value): a text, or undefined for undefined.
JSONStringify(value) ==
    IF value.t \in {"undefined", "absent"} THEN Undefined ELSE StrV(StringifyText(value))

\* { ...a, ...b } on the pairs of two objects: the entries of b are set on a
\* copy of a, in their order.
RECURSIVE SpreadInto(_, _, _)
SpreadInto(pairs, more, i) ==
    IF i > Len(more) THEN pairs
    ELSE SpreadInto(SetProp(pairs, more[i][1], more[i][2]), more, i + 1)

\* Fault: mergeHeaders with its spreads the other way round.
mergeHeadersBaseWins(base, extra) ==
    ObjV(SpreadInto(extra.f, Coalesce(base, ObjV(<<>>)).f, 1))

\* mergeHeaders(base, extra): { ...base, ...extra }
mergeHeaders(base, extra) ==
    ObjV(SpreadInto(Coalesce(base, ObjV(<<>>)).f, extra.f, 1))

\* The response envelope { statusCode, headers, body }.
ResponseOf(statusCode, headers, body) ==
    ObjV(<< <<<<"statusCode">>, statusCode>>, <<<<"headers">>, headers>>,
            <<<<"body">>, body>> >>)

createJsonResponse(body, statusCode, headers) ==
    ResponseOf(statusCode,
               mergeHeaders(headers,
                   ObjV(<< <<<<"content-type">>, StrV(<<"application/json">>)>> >>)),
               JSONStringify(body))

createTextResponse(body, statusCode, headers) ==
    ResponseOf(statusCode,
               mergeHeaders(headers,
                   ObjV(<< <<<<"content-type">>,
                           StrV(<<"text/plain", ";", " ", "charset=utf-8">>)>> >>)),
               body)

createNoContentResponse(headers) ==
    ResponseOf(NumV(<<"204">>),
               IF Truthy(headers) THEN ObjV(headers.f) ELSE Undefined,
               StrV(<<>>))

\* Fault: the redirect response letting the caller's headers pass over the
\* Location entry.
createRedirectResponseCallerWins(location, statusCode, headers) ==
    ResponseOf(statusCode,
               ObjV(SpreadInto(<< <<<<"Location">>, location>> >>,
                               Coalesce(headers, ObjV(<<>>)).f, 1)),
               StrV(<<>>))

createRedirectResponse(location, statusCode, headers) ==
    ResponseOf(statusCode,
               mergeHeaders(headers, ObjV(<< <<<<"Location">>, location>> >>)),
               StrV(<<>>))

\* A parameter with a default value: undefined takes the default.
DefaultParam(arg, default) ==
    IF arg.t = "undefined" THEN default ELSE arg

\* class Response: json, text, noContent, redirect
ResponseJson(body, statusCode, headers) ==
    createJsonResponse(body, DefaultParam(statusCode, NumV(<<"200">>)), headers)

ResponseText(body, statusCode, headers) ==
    createTextResponse(body, DefaultParam(statusCode, NumV(<<"200">>)), headers)

ResponseNoContent(headers) ==
    createNoContentResponse(headers)

ResponseRedirect(location, statusCode, headers) ==
    createRedirectResponse(location, DefaultParam(statusCode, NumV(<<"302">>)), headers)

-----------------------------------------------------------------------------
(* Events the gateway can deliver *)

\* A payload v1.0 event with nothing in it (the tests' makeRestEvent).
RestBase ==
    [version |-> Absent, rawPath |-> Absent,
     httpMethod |-> StrV(<<"GET">>), path |-> StrV(<<"/">>),
     headers |-> ObjV(<<>>), multiValueHeaders |-> ObjV(<<>>),
     queryStringParameters |-> Null, multiValueQueryStringParameters |-> Null,
     rawQueryString |-> Absent, pathParameters |-> Null,
     body |-> Null, isBase64Encoded |-> BoolV(<<"false">>),
     requestContext |-> ObjV(<<>>)]

\* A payload v2.0 event with nothing in it (the tests' makeHttpEvent).
HttpBase ==
    [version |-> StrV(<<"2.0">>), rawPath |-> StrV(<<"/">>),
     httpMethod |-> Absent, path |-> Absent,
     headers |-> ObjV(<<>>), multiValueHeaders |-> Absent,
     queryStringParameters |-> Absent, multiValueQueryStringParameters |-> Absent,
     rawQueryString |-> StrV(<<>>), pathParameters |-> Absent,
     body |-> Absent, isBase64Encoded |-> BoolV(<<"false">>),
     requestContext |->
         ObjV(<< <<<<"http">>, ObjV(<< <<<<"method">>, StrV(<<"GET">>)>> >>)>>,
                 <<<<"timeEpoch">>, NumV(<<"0">>)>> >>)]

\* Every combination of the fields detectEventKind looks at.
ShapeEvents ==
    { [RestBase EXCEPT !.version = ver, !.rawPath = rp, !.httpMethod = hm, !.path = pa] :
        ver \in {Absent, StrV(<<"2.0">>), StrV(<<"1.0">>)},
        rp \in {Absent, Undefined, StrV(<<"/users">>)},
        hm \in {Absent, StrV(<<"GET">>)},
        pa \in {Absent, StrV(<<"/">>)} }

SingleQueryMaps ==
    { Null,
      ObjV(<<>>),
      ObjV(<< <<<<"filter">>, StrV(<<"gateway">>)>> >>),
      ObjV(<< <<<<"filter">>, Null>> >>),
      ObjV(<< <<<<"filter">>, StrV(<<"one", ",", "two">>)>>, <<<<"single">>, StrV(<<"only">>)>> >>),
      ObjV(<< <<<<"single">>, StrV(<<>>)>> >>) }

MultiQueryMaps ==
    { Null,
      ObjV(<<>>),
      ObjV(<< <<<<"filter">>, ArrV(<<StrV(<<"one">>), StrV(<<"two">>)>>)>> >>),
      ObjV(<< <<<<"filter">>, ArrV(<<>>)>> >>),
      ObjV(<< <<<<"filter">>, ArrV(<<StrV(<<"two">>), StrV(<<"one">>), StrV(<<"two">>)>>)>>,
              <<<<"single">>, ArrV(<<StrV(<<"only">>)>>)>> >>) }

RawQueryStrings ==
    { Absent,
      StrV(<<>>),
      StrV(<<"filter", "=", "one", "&", "filter", "=", "two", "&", "single", "=", "only">>),
      StrV(<<"filter", "=", "two", "&", "single", "=", "only", "&", "filter", "=", "one">>),
      StrV(<<"filter", "=", "one">>),
      StrV(<<"filter", "=">>),
      StrV(<<"single", "&", "&", "filter", "=", "a", "%2C", "b", "&", "filter", "=", "c">>) }

RestQueryEvents ==
    { [RestBase EXCEPT !.queryStringParameters = sq, !.multiValueQueryStringParameters = mq] :
        sq \in SingleQueryMaps, mq \in MultiQueryMaps }

HttpQueryEvents ==
    { [HttpBase EXCEPT !.queryStringParameters = sq, !.rawQueryString = rq] :
        sq \in {Absent, Null,
                ObjV(<< <<<<"filter">>, StrV(<<"gateway">>)>> >>),
                ObjV(<< <<<<"filter">>, StrV(<<"one", ",", "two">>)>>,
                        <<<<"single">>, StrV(<<"only">>)>> >>)},
        rq \in RawQueryStrings }

CT(name, value) ==
    <<<<name>>, value>>

HeaderMaps ==
    { Null,
      ObjV(<<>>),
      ObjV(<<CT("Content-Type", StrV(<<"application/json">>))>>),
      ObjV(<<CT("content-type", StrV(<<"Application/JSON", ";", " ", "charset=utf-8">>))>>),
      ObjV(<<CT("CONTENT-TYPE", StrV(<<" ", "application/json", " ">>))>>),
      ObjV(<<CT("content-type", StrV(<<"application/json", " ", "x">>))>>),
      ObjV(<<CT("content-type", StrV(<<";", "application/json">>))>>),
      ObjV(<<CT("content-type", StrV(<<"application/x-www-form-urlencoded">>))>>),
      ObjV(<<CT("Content-Type", StrV(<<"APPLICATION/X-WWW-FORM-URLENCODED", ";", "charset=utf-8">>))>>),
      ObjV(<<CT("content-type", StrV(<<"text/plain">>))>>),
      ObjV(<<CT("content-type", StrV(<<>>))>>),
      ObjV(<<CT("content-type", Null)>>),
      ObjV(<<CT("x-trace", StrV(<<"application/json">>))>>),
      ObjV(<<CT("Content-Type", StrV(<<"text/plain">>)), CT("content-type", StrV(<<"application/json">>))>>) }

MultiHeaderMaps ==
    { ObjV(<<>>),
      ObjV(<<CT("Content-Type", ArrV(<<StrV(<<"application/json">>), StrV(<<"text/plain">>)>>))>>),
      ObjV(<<CT("content-type", ArrV(<<>>)),
             CT("Content-Type", ArrV(<<StrV(<<"application/json">>)>>))>>) }

JsonHello ==
    <<"{", DQ, "hello", DQ, ":", DQ, "world", DQ, ",", DQ, "count", DQ, ":", "2", "}">>

JsonFalsy ==
    <<"{", DQ, "hello", DQ, ":", "null", ",", " ", DQ, "count", DQ, ":", "0", ",",
      DQ, "color", DQ, ":", DQ, DQ, ",", DQ, "single", DQ, ":", "false", "}">>

FormColors ==
    <<"color", "=", "red", "&", "color", "=", "blue", "&", "single", "=", "one">>

\* Bodies sent as they are.
PlainBodies ==
    { Null, Undefined, StrV(<<>>),
      StrV(JsonHello), StrV(JsonFalsy), StrV(<<"{", "invalid">>),
      StrV(<<"null">>), StrV(<<"7">>), StrV(<<DQ, "hello", DQ>>),
      StrV(<<"[", DQ, "world", DQ, "]">>),
      StrV(FormColors), StrV(<<"hello">>) }

\* Bodies sent with the base64 flag set.
Base64Bodies ==
    { Null, StrV(<<>>), StrV(<<"e30=">>), StrV(<<"e2ludmFsaWQ=">>),
      StrV(<<"eyJuZXN0ZWQiOnRydWV9">>), StrV(<<"{", "}">>) }

JsonHeaders ==
    ObjV(<<CT("Content-Type", StrV(<<"application/json">>))>>)

FormHeaders ==
    ObjV(<<CT("content-type", StrV(<<"application/x-www-form-urlencoded">>))>>)

\* Every header mapping with a body of each content type, and every body
\* under a JSON, a form and no content type.
BodyVariants(base) ==
    { [base EXCEPT !.headers = h, !.body = b] :
        h \in HeaderMaps, b \in {StrV(JsonHello), StrV(<<"{", "invalid">>), StrV(FormColors)} }
    \cup
    { [base EXCEPT !.headers = h, !.body = b] :
        h \in {JsonHeaders, FormHeaders, ObjV(<<>>)}, b \in PlainBodies }
    \cup
    { [base EXCEPT !.headers = h, !.body = b, !.isBase64Encoded = BoolV(<<"true">>)] :
        h \in {JsonHeaders, ObjV(<<>>)}, b \in Base64Bodies }

\* The same on the HTTP shape, whose header lookup is the simpler one.
HttpBodyEvents ==
    { [HttpBase EXCEPT !.headers = h, !.body = b] :
        h \in {JsonHeaders, FormHeaders, Null,
               ObjV(<<CT("CONTENT-TYPE", StrV(<<" ", "application/json", " ">>))>>),
               ObjV(<<CT("content-type", StrV(<<"text/plain">>))>>)},
        b \in {Absent, StrV(JsonHello), StrV(<<"{", "invalid">>), StrV(FormColors),
               StrV(<<"null">>)} }
    \cup
    { [HttpBase EXCEPT !.headers = JsonHeaders, !.body = b,
                       !.isBase64Encoded = BoolV(<<"true">>)] :
        b \in {StrV(<<"e2ludmFsaWQ=">>), StrV(<<"eyJuZXN0ZWQiOnRydWV9">>)} }

\* Form bodies with an empty last value, a key without "=", and an encoded
\* value.
FormEdges ==
    { <<"color", "=", "red", "&", "color", "=">>,
      <<"single", "&", "color", "=", "a", "%2C", "b", "&", "single", "=", "x", "&",
        "hello", "=", "1", "&", "color", "=", "red">> }

FormEdgeEvents ==
    { [RestBase EXCEPT !.headers = FormHeaders, !.body = StrV(b)] : b \in FormEdges }

\* Events with path parameters, a query and a JSON body at once.
PathEvents ==
    { [RestBase EXCEPT
          !.pathParameters = ObjV(<< <<<<"id">>, StrV(<<"123">>)>> >>),
          !.queryStringParameters = ObjV(<< <<<<"filter">>, StrV(<<"gateway">>)>> >>),
          !.multiValueQueryStringParameters =
              ObjV(<< <<<<"filter">>, ArrV(<<StrV(<<"one">>), StrV(<<"two">>)>>)>> >>),
          !.headers = JsonHeaders, !.body = StrV(JsonHello)],
      [HttpBase EXCEPT
          !.pathParameters = ObjV(<< <<<<"id">>, StrV(<<"123">>)>> >>),
          !.queryStringParameters = ObjV(<< <<<<"filter">>, StrV(<<"gateway">>)>> >>),
          !.rawQueryString = StrV(<<"filter", "=", "one", "&", "filter", "=", "two">>),
          !.headers = FormHeaders, !.body = StrV(JsonHello)],
      [RestBase EXCEPT
          !.pathParameters = ObjV(<< <<<<"id">>, Null>>, <<<<"slug">>, StrV(<<"abc">>)>> >>)],
      [HttpBase EXCEPT
          !.pathParameters = ObjV(<< <<<<"slug">>, StrV(<<>>)>> >>)],
      [HttpBase EXCEPT !.pathParameters = Null] }

\* Request contexts with and without the two time fields.
RequestContexts ==
    { Absent, Null, ObjV(<<>>),
      ObjV(<< <<<<"timeEpoch">>, NumV(<<"1428582896000">>)>> >>),
      ObjV(<< <<<<"requestTimeEpoch">>, NumV(<<"1428582896000">>)>> >>),
      ObjV(<< <<<<"timeEpoch">>, StrV(<<"soon">>)>>,
              <<<<"requestTimeEpoch">>, NumV(<<"7">>)>> >>),
      ObjV(<< <<<<"requestTimeEpoch">>, NumV(<<"7">>)>>,
              <<<<"timeEpoch">>, NumV(<<"0">>)>> >>),
      ObjV(<< <<<<"timeEpoch">>, Null>>, <<<<"requestTimeEpoch">>, StrV(<<"7">>)>> >>) }

TimeEvents ==
    { [base EXCEPT !.requestContext = ctx] :
        base \in {RestBase, HttpBase}, ctx \in RequestContexts }

RestMultiHeaderEvents ==
    { [RestBase EXCEPT !.headers = h, !.multiValueHeaders = mh, !.body = b] :
        h \in {Null, ObjV(<<>>), ObjV(<<CT("content-type", Null)>>)},
        mh \in MultiHeaderMaps,
        b \in {StrV(JsonHello), StrV(<<"{", "invalid">>)} }

Events ==
    ShapeEvents \cup RestQueryEvents \cup HttpQueryEvents
    \cup BodyVariants(RestBase) \cup HttpBodyEvents \cup RestMultiHeaderEvents
    \cup FormEdgeEvents \cup PathEvents \cup TimeEvents

-----------------------------------------------------------------------------
(* Arguments of the calls *)

QueryKeys ==
    {<<"filter">>, <<"single">>, <<"missing">>}

InputKeys ==
    {<<"hello">>, <<"count">>, <<"color">>, <<"single">>, <<"missing">>, <<"0">>}

Defaults ==
    {Undefined, StrV(<<"n/a">>)}

QueryKeyLists ==
    {<<>>, <<<<"filter">>, <<"single">>>>, <<<<"missing">>, <<"filter">>, <<"missing">>>>}

InputKeyLists ==
    {<<>>, <<<<"hello">>, <<"count">>, <<"missing">>>>, <<<<"color">>, <<"single">>>>}

PathKeys ==
    {<<"id">>, <<"slug">>, <<"missing">>}

HeaderNames ==
    {<<"content-type">>, <<"Content-Type">>, <<"X-Trace">>}

Sources ==
    {"body", "query", "path"}

-----------------------------------------------------------------------------
(* The state machine: one request instance over one event *)

\* A call as recorded in last: the operation, its arguments, its outcome.
Call(op, key, keys, def, src, mode, out) ==
    [op |-> op, key |-> key, keys |-> keys, def |-> def, src |-> src, mode |-> mode,
     out |-> out]

NoCall ==
    Call("none", <<>>, <<>>, Undefined, "", "", Return(Undefined))

Init ==
    /\ event \in Events
    /\ adapter = "none"
    /\ rawQueryMap = ObjV(<<>>)
    /\ parsedBody = Unset
    /\ cacheWrites = 0
    /\ last = NoCall
    /\ calls = 0

\* Fault: a constructor that resolves the body at once.
ConstructRestEager ==
    /\ adapter = "none"
    /\ \E out \in {RestApiRequestNew(event)} :
         \E r \in {ensureParsedBody("rest", event, Unset)} :
           /\ adapter' = IF out.err # NoError \/ r.err # NoError THEN "failed" ELSE "rest"
           /\ parsedBody' = IF out.err = NoError THEN r.cache ELSE parsedBody
           /\ cacheWrites' = IF out.err = NoError THEN cacheWrites + r.writes
                              ELSE cacheWrites
           /\ last' = Call("new RestApiRequest", <<>>, <<>>, Undefined, "", "",
                           IF out.err = NoError /\ r.err # NoError
                           THEN Throw(r.err) ELSE out)
    /\ UNCHANGED <<event, rawQueryMap, calls>>

\* new RestApi.Request(event)
ConstructRest ==
    /\ adapter = "none"
    /\ \E out \in {RestApiRequestNew(event)} :
           /\ adapter' = IF out.err = NoError THEN "rest" ELSE "failed"
           /\ last' = Call("new RestApiRequest", <<>>, <<>>, Undefined, "", "", out)
    /\ UNCHANGED <<event, rawQueryMap, parsedBody, cacheWrites, calls>>

\* new HttpApi.Request(event)
ConstructHttp ==
    /\ adapter = "none"
    /\ \E out \in {HttpApiRequestNew(event)} :
           /\ adapter' = IF out.err = NoError THEN "http" ELSE "failed"
           /\ rawQueryMap' = IF out.err = NoError
                             THEN parseRawQuery(Coalesce(event.rawQueryString, StrV(<<>>)))
                             ELSE rawQueryMap
           /\ last' = Call("new HttpApiRequest", <<>>, <<>>, Undefined, "", "", out)
    /\ UNCHANGED <<event, parsedBody, cacheWrites, calls>>

\* An accessor can be called on a constructed request.
Usable ==
    /\ adapter \in {"rest", "http"}
    /\ calls < MaxCalls

GetPathParam ==
    /\ Usable
    /\ \E key \in PathKeys, def \in Defaults :
          last' = Call("getPathParam", key, <<>>, def, "", "",
                       Return(getPathParam(event, key, def)))
    /\ calls' = calls + 1
    /\ UNCHANGED <<event, adapter, rawQueryMap, parsedBody, cacheWrites>>

GetQueryStr ==
    /\ Usable
    /\ \E key \in QueryKeys, def \in Defaults :
          last' = Call("getQueryStr", key, <<>>, def, "", "",
                       Return(getQueryStr(adapter, event, rawQueryMap, key, def)))
    /\ calls' = calls + 1
    /\ UNCHANGED <<event, adapter, rawQueryMap, parsedBody, cacheWrites>>

GetQueryStrs ==
    /\ Usable
    /\ \E keys \in QueryKeyLists, def \in Defaults :
          last' = Call("getQueryStrs", <<>>, keys, def, "", "",
                       Return(getQueryStrs(adapter, event, rawQueryMap, keys, def)))
    /\ calls' = calls + 1
    /\ UNCHANGED <<event, adapter, rawQueryMap, parsedBody, cacheWrites>>

GetHeader ==
    /\ Usable
    /\ \E name \in HeaderNames, def \in Defaults :
          last' = Call("getHeader", name, <<>>, def, "", "",
                       Return(getHeader(adapter, event, name, def)))
    /\ calls' = calls + 1
    /\ UNCHANGED <<event, adapter, rawQueryMap, parsedBody, cacheWrites>>

GetMethod ==
    /\ Usable
    /\ last' = Call("getMethod", <<>>, <<>>, Undefined, "", "", Return(getMethod(adapter, event)))
    /\ calls' = calls + 1
    /\ UNCHANGED <<event, adapter, rawQueryMap, parsedBody, cacheWrites>>

GetPath ==
    /\ Usable
    /\ last' = Call("getPath", <<>>, <<>>, Undefined, "", "", Return(getPath(adapter, event)))
    /\ calls' = calls + 1
    /\ UNCHANGED <<event, adapter, rawQueryMap, parsedBody, cacheWrites>>

GetRequestTimeEpoch ==
    /\ Usable
    /\ last' = Call("getRequestTimeEpoch", <<>>, <<>>, Undefined, "", "",
                    Return(getRequestTimeEpoch(event)))
    /\ calls' = calls + 1
    /\ UNCHANGED <<event, adapter, rawQueryMap, parsedBody, cacheWrites>>

\* Fault: getRawBody keeping the decoded text in the event.
GetRawBodyDecodeInPlace ==
    /\ Usable
    /\ last' = Call("getRawBody", <<>>, <<>>, Undefined, "", "", Return(getRawBody(event)))
    /\ event' = IF Truthy(getRawBody(event)) /\ Truthy(Read(event.isBase64Encoded))
                THEN [event EXCEPT !.body = getRawBody(event),
                                   !.isBase64Encoded = BoolV(<<"false">>)]
                ELSE event
    /\ calls' = calls + 1
    /\ UNCHANGED <<adapter, rawQueryMap, parsedBody, cacheWrites>>

GetRawBody ==
    /\ Usable
    /\ last' = Call("getRawBody", <<>>, <<>>, Undefined, "", "", Return(getRawBody(event)))
    /\ calls' = calls + 1
    /\ UNCHANGED <<event, adapter, rawQueryMap, parsedBody, cacheWrites>>

GetInput ==
    /\ Usable
    /\ \E key \in InputKeys, def \in Defaults :
          \E r \in {getInput(adapter, event, parsedBody, key, def)} :
              /\ parsedBody' = r.cache
              /\ cacheWrites' = cacheWrites + r.writes
              /\ last' = Call("getInput", key, <<>>, def, "", "", r.out)
    /\ calls' = calls + 1
    /\ UNCHANGED <<event, adapter, rawQueryMap>>

GetInputs ==
    /\ Usable
    /\ \E keys \in InputKeyLists, def \in Defaults :
          \E r \in {getInputs(adapter, event, parsedBody, keys, def)} :
              /\ parsedBody' = r.cache
              /\ cacheWrites' = cacheWrites + r.writes
              /\ last' = Call("getInputs", <<>>, keys, def, "", "", r.out)
    /\ calls' = calls + 1
    /\ UNCHANGED <<event, adapter, rawQueryMap>>

GetJsonBody ==
    /\ Usable
    /\ \E r \in {getJsonBody(adapter, event, parsedBody)} :
           /\ parsedBody' = r.cache
           /\ cacheWrites' = cacheWrites + r.writes
           /\ last' = Call("getJsonBody", <<>>, <<>>, Undefined, "", "", r.out)
    /\ calls' = calls + 1
    /\ UNCHANGED <<event, adapter, rawQueryMap>>

Validate ==
    /\ Usable
    /\ \E mode \in ValidatorModes, source \in Sources :
          \E r \in {validate(adapter, event, parsedBody, mode, source)} :
              /\ parsedBody' = r.cache
              /\ cacheWrites' = cacheWrites + r.writes
              /\ last' = Call("validate", <<>>, <<>>, Undefined, source, mode, r.out)
    /\ calls' = calls + 1
    /\ UNCHANGED <<event, adapter, rawQueryMap>>

\* detectEventKind(event), called on its own before a request is constructed.
Detect ==
    /\ adapter = "none"
    /\ last' = Call("detectEventKind", <<>>, <<>>, Undefined, "", "", detectEventKind(event))
    /\ UNCHANGED <<event, adapter, rawQueryMap, parsedBody, cacheWrites, calls>>

Next ==
    \/ Detect
    \/ ConstructRest
    \/ ConstructHttp
    \/ GetPathParam
    \/ GetQueryStr
    \/ GetQueryStrs
    \/ GetHeader
    \/ GetMethod
    \/ GetPath
    \/ GetRequestTimeEpoch
    \/ GetRawBody
    \/ GetInput
    \/ GetInputs
    \/ GetJsonBody
    \/ Validate

Spec ==
    Init /\ [][Next]_vars

-----------------------------------------------------------------------------
(* The response builders as a program of their own: each step is one call *)

Locations ==
    {StrV(<<"/login">>), StrV(<<"https", ":", "//example.com/">>)}

RedirectStatuses ==
    {Undefined, NumV(<<"301">>)}

BodyStatuses ==
    {Undefined, NumV(<<"201">>)}

CallerHeaders ==
    {Undefined,
     ObjV(<<>>),
     ObjV(<< <<<<"Location">>, StrV(<<"/other">>)>> >>),
     ObjV(<< <<<<"location">>, StrV(<<"/lower">>)>> >>),
     ObjV(<< <<<<"x-trace">>, StrV(<<"1">>)>>, <<<<"Location">>, StrV(<<"/other">>)>> >>),
     ObjV(<< <<<<"content-type">>, StrV(<<"text/html">>)>> >>),
     ObjV(<< <<<<"Content-Type">>, StrV(<<"text/html">>)>> >>),
     ObjV(<< <<<<"content-type">>, StrV(<<"text/html">>)>>, <<<<"x-trace">>, StrV(<<"1">>)>> >>)}

JsonBodies ==
    {Undefined,
     Null,
     StrV(<<"say ", DQ, "hi", DQ>>),
     NumV(<<"7">>),
     ArrV(<<NumV(<<"1">>), Undefined, BoolV(<<"true">>)>>),
     ObjV(<< <<<<"success">>, BoolV(<<"true">>)>>, <<<<"skipped">>, Undefined>>,
             <<<<"data">>, ObjV(<< <<<<"hello">>, StrV(<<"world">>)>> >>)>> >>)}

TextBodies ==
    {StrV(<<>>), StrV(<<"hello">>)}

\* A call of a builder: its arguments in order, and the response it returned.
BuilderCall(op, args, response) ==
    Call(op, <<>>, <<>>, ArrV(args), "", "", Return(response))

ResponseInit ==
    /\ event = RestBase
    /\ adapter = "none"
    /\ rawQueryMap = ObjV(<<>>)
    /\ parsedBody = Unset
    /\ cacheWrites = 0
    /\ last = NoCall
    /\ calls = 0

\* Response.json(body, statusCode, headers)
Json ==
    /\ \E body \in JsonBodies, statusCode \in BodyStatuses, headers \in CallerHeaders :
           last' = BuilderCall("json", <<body, statusCode, headers>>,
                               ResponseJson(body, statusCode, headers))
    /\ UNCHANGED <<event, adapter, rawQueryMap, parsedBody, cacheWrites, calls>>

\* Response.text(body, statusCode, headers)
Text ==
    /\ \E body \in TextBodies, statusCode \in BodyStatuses, headers \in CallerHeaders :
           last' = BuilderCall("text", <<body, statusCode, headers>>,
                               ResponseText(body, statusCode, headers))
    /\ UNCHANGED <<event, adapter, rawQueryMap, parsedBody, cacheWrites, calls>>

\* Response.noContent(headers)
NoContent ==
    /\ \E headers \in CallerHeaders :
           last' = BuilderCall("noContent", <<headers>>, ResponseNoContent(headers))
    /\ UNCHANGED <<event, adapter, rawQueryMap, parsedBody, cacheWrites, calls>>

\* Response.redirect(location, statusCode, headers)
Redirect ==
    /\ \E location \in Locations, statusCode \in RedirectStatuses,
          headers \in CallerHeaders :
           last' = BuilderCall("redirect", <<location, statusCode, headers>>,
                               ResponseRedirect(location, statusCode, headers))
    /\ UNCHANGED <<event, adapter, rawQueryMap, parsedBody, cacheWrites, calls>>

ResponseNext ==
    \/ Json
    \/ Text
    \/ NoContent
    \/ Redirect

ResponseSpec ==
    ResponseInit /\ [][ResponseNext]_vars

-----------------------------------------------------------------------------
(* Properties *)

\* The calls that need the parsed body.  getInputs with no key makes no call
\* of getInput and so needs none.
NeedsParsedBody(c) ==
    \/ c.op \in {"getInput", "getJsonBody"}
    \/ c.op = "getInputs" /\ c.keys # <<>>
    \/ c.op = "validate" /\ c.src = "body"

\* Texts joined by commas, written out for the lengths that occur.
JoinTexts(items) ==
    CASE Len(items) = 0 -> <<>>
      [] Len(items) = 1 -> items[1]
      [] Len(items) = 2 -> items[1] \o <<",">> \o items[2]
      [] Len(items) = 3 -> items[1] \o <<",">> \o items[2] \o <<",">> \o items[3]

\* C1: the parsed-body cache is assigned at most once on a request instance;
\* once it holds a tagged value no call changes it, and getJsonBody and
\* getInput answer from that cached value.
C1_CacheWrittenOnce ==
    [][ /\ cacheWrites' <= 1
        /\ parsedBody # Unset => parsedBody' = parsedBody
        /\ (parsedBody # Unset /\ last'.op = "getJsonBody") =>
               last'.out = Return(IF parsedBody.kind = "json"
                                  THEN parsedBody.value ELSE Undefined)
        /\ (parsedBody # Unset /\ last'.op = "getInput") =>
               last'.out = Return(getInputFrom(parsedBody, last'.key, last'.def))
      ]_vars

\* One getInputs call over three keys after an earlier call: the cache was
\* assigned once and every later getInput read it.
C1_Witness ==
    /\ calls = 2
    /\ cacheWrites = 1
    /\ parsedBody.kind = "json"
    /\ last.op = "getInputs"
    /\ Len(last.keys) = 3
    /\ last.out.err = NoError

\* A constructed request whose content type resolves to application/json and
\* whose non-empty raw body is not JSON.
MalformedJson ==
    /\ adapter \in {"rest", "http"}
    /\ Truthy(getRawBody(event))
    /\ normalizedContentType(adapter, event) = StrV(<<"application/json">>)
    /\ ~JSONParse(getRawBody(event).v).ok

\* C2: with a JSON content type and a body that does not parse, every call
\* that needs the parsed body throws BodyParseError, the first and every
\* later one, and the cache is never assigned.
C2_MalformedJsonAlwaysThrows ==
    MalformedJson =>
        /\ parsedBody = Unset
        /\ cacheWrites = 0
        /\ NeedsParsedBody(last) => last.out.err.name = "BodyParseError"

C2_Witness ==
    /\ MalformedJson
    /\ calls = 2
    /\ last.op = "validate"
    /\ last.src = "body"
    /\ last.out.err.name = "BodyParseError"
    /\ event.body = StrV(<<"{", "invalid">>)

OccursInRawQuery(key) ==
    \E i \in 1..Len(URLSearchParams(Coalesce(event.rawQueryString, StrV(<<>>)).v)) :
        URLSearchParams(Coalesce(event.rawQueryString, StrV(<<>>)).v)[i][1] = key

HttpMarked ==
    event.version = StrV(<<"2.0">>) \/ event.rawPath.t # "absent"

\* The event carries both an httpMethod and a path field.
RestMarked ==
    event.httpMethod.t # "absent" /\ event.path.t # "absent"

\* C6: detectEventKind answers v2 for every event with version "2.0" or a
\* rawPath field, v1 for every other event with both httpMethod and path, and
\* throws UnsupportedEventError for the rest; it changes nothing.
C6_DetectTotal ==
    [][ last'.op = "detectEventKind" =>
          /\ HttpMarked => last'.out = Return(StrV(<<"v2">>))
          /\ (~HttpMarked /\ RestMarked) => last'.out = Return(StrV(<<"v1">>))
          /\ (~HttpMarked /\ ~RestMarked) =>
                 /\ last'.out.err.name = "UnsupportedEventError"
                 /\ last'.out.val = Undefined
          /\ UNCHANGED <<event, adapter, rawQueryMap, parsedBody, cacheWrites, calls>>
      ]_vars

\* An event whose rawPath field is there but undefined, with both REST fields.
C6_Witness ==
    /\ last.op = "detectEventKind"
    /\ event.rawPath = Undefined
    /\ event.version.t = "absent"
    /\ RestMarked
    /\ last.out = Return(StrV(<<"v2">>))

\* C7: an event that satisfies both heuristics is classified v2, so the REST
\* constructor rejects it and the HTTP constructor accepts it.
C7_BothHeuristicsIsHttp ==
    (HttpMarked /\ RestMarked) =>
        /\ last.op = "detectEventKind" => last.out = Return(StrV(<<"v2">>))
        /\ last.op = "new RestApiRequest" =>
               adapter = "failed" /\ last.out.err.name = "UnsupportedEventError"
        /\ last.op = "new HttpApiRequest" => adapter = "http" /\ last.out.err = NoError
        /\ adapter # "rest"

C7_Witness ==
    /\ HttpMarked
    /\ RestMarked
    /\ event.version = StrV(<<"2.0">>)
    /\ last.op = "new RestApiRequest"
    /\ adapter = "failed"

\* C8: a constructor succeeds exactly when detectEventKind gives its adapter's
\* kind; every other construction fails with UnsupportedEventError, and no
\* accessor is ever called on a request that was not constructed.
C8_ConstructionIffKind ==
    /\ last.op = "new RestApiRequest" =>
           /\ adapter = "rest" <=> detectEventKind(event) = Return(StrV(<<"v1">>))
           /\ adapter # "rest" =>
                  adapter = "failed" /\ last.out.err.name = "UnsupportedEventError"
    /\ last.op = "new HttpApiRequest" =>
           /\ adapter = "http" <=> detectEventKind(event) = Return(StrV(<<"v2">>))
           /\ adapter # "http" =>
                  adapter = "failed" /\ last.out.err.name = "UnsupportedEventError"
    /\ adapter = "rest" => detectEventKind(event) = Return(StrV(<<"v1">>))
    /\ adapter = "http" => detectEventKind(event) = Return(StrV(<<"v2">>))
    /\ adapter \in {"none", "failed"} =>
           /\ calls = 0
           /\ parsedBody = Unset
           /\ last.op \in {"none", "detectEventKind", "new RestApiRequest", "new HttpApiRequest"}

\* The HTTP constructor given an event of neither shape.
C8_Witness ==
    /\ last.op = "new HttpApiRequest"
    /\ ~HttpMarked
    /\ ~RestMarked
    /\ adapter = "failed"
    /\ last.out.err.name = "UnsupportedEventError"

\* The content type a header value stands for: lower-cased, cut at the first
\* ";", white space at both ends removed.
TypeOfHeader(header) ==
    IF header.t = "str" THEN Trim(SplitHead(ToLowerCase(header.v), ";")) ELSE <<"(none)">>

\* C9: for a non-empty raw body the cached tag is decided by the content-type
\* header alone: json for application/json, form for
\* application/x-www-form-urlencoded, text with the raw body in any other
\* case, a missing header included.
C9_TagFromContentType ==
    (parsedBody # Unset /\ Truthy(getRawBody(event))) =>
        LET type == TypeOfHeader(getHeader(adapter, event, <<"content-type">>, Undefined))
        IN  /\ parsedBody.kind = "json" <=> type = <<"application/json">>
            /\ parsedBody.kind = "form" <=> type = <<"application/x-www-form-urlencoded">>
            /\ parsedBody.kind = "text" <=>
                   type \notin {<<"application/json">>, <<"application/x-www-form-urlencoded">>}
            /\ parsedBody.kind = "text" => parsedBody.value = getRawBody(event)
            /\ parsedBody.kind = "json" =>
                   parsedBody.value = JSONParse(getRawBody(event).v).val

\* An upper-case header name with white space around the type.
C9_Witness ==
    /\ parsedBody.kind = "json"
    /\ \E i \in 1..Len(event.headers.f) :
          event.headers.f[i] = CT("CONTENT-TYPE", StrV(<<" ", "application/json", " ">>))
    /\ last.op = "getJsonBody"

\* C10: getInput looks the key up in a parsed JSON object or array and in a
\* form mapping; with tag empty or text, and with a JSON null or scalar, it
\* returns the default for every key.
C10_GetInputDispatch ==
    (last.op = "getInput" /\ last.out.err = NoError) =>
        LET value == parsedBody.value
        IN  CASE parsedBody.kind = "json" /\ value.t \in {"obj", "arr"} ->
                   last.out.val = Coalesce(Lookup(value, last.key), last.def)
              [] parsedBody.kind = "form" ->
                   /\ value.t = "obj"
                   /\ last.out.val = Coalesce(GetKey(value, last.key), last.def)
              [] parsedBody.kind = "json" /\ value.t \in {"null", "num", "str", "bool"} ->
                   last.out.val = last.def
              [] parsedBody.kind \in {"empty", "text"} ->
                   last.out.val = last.def

\* A form body answering with its value, not the default.
C10_Witness ==
    /\ last.op = "getInput"
    /\ parsedBody.kind = "form"
    /\ last.key = <<"color">>
    /\ last.def = StrV(<<"n/a">>)
    /\ last.out = Return(StrV(<<"blue">>))


\* What the key stands for in a parsed body: the value stored under it in a
\* JSON object or array or in a form mapping, nothing in any other body.
StoredInput(body, key) ==
    IF body.kind = "form" \/ (body.kind = "json" /\ body.value.t \in {"obj", "arr"})
    THEN Lookup(body.value, key)
    ELSE Absent

\* The stored value, or the default when it is missing, undefined or null.
InputOrDefault(body, key, def) ==
    IF StoredInput(body, key).t \in {"absent", "undefined", "null"}
    THEN def
    ELSE StoredInput(body, key)

\* C11: getInput and getInputs give the default only for a missing, null or
\* undefined value; an empty string, 0 or false is returned as it is, for
\* JSON and form bodies alike; getInputs answers for each listed key, and for
\* no other, what getInput answers for it.
C11_NullishDefault ==
    /\ (last.op = "getInput" /\ last.out.err = NoError) =>
           last.out.val = InputOrDefault(parsedBody, last.key, last.def)
    /\ (last.op = "getInputs" /\ last.out.err = NoError) =>
           /\ last.out.val.t = "obj"
           /\ \A i \in 1..Len(last.keys) :
                 /\ HasKey(last.out.val, last.keys[i])
                 /\ GetKey(last.out.val, last.keys[i])
                        = InputOrDefault(parsedBody, last.keys[i], last.def)
           /\ \A j \in 1..Len(last.out.val.f) :
                 /\ \E i \in 1..Len(last.keys) : last.keys[i] = last.out.val.f[j][1]
                 /\ \A k \in 1..Len(last.out.val.f) :
                       last.out.val.f[k][1] = last.out.val.f[j][1] => k = j

\* A JSON body whose empty string and false come back although a default was
\* given.
C11_Witness ==
    /\ last.op = "getInputs"
    /\ parsedBody.kind = "json"
    /\ last.keys = << <<"color">>, <<"single">> >>
    /\ last.def = StrV(<<"n/a">>)
    /\ last.out = Return(ObjV(<< <<<<"color">>, StrV(<<>>)>>,
                                 <<<<"single">>, BoolV(<<"false">>)>> >>))


\* The value given at the last occurrence of a name among name=value pairs.
LastGiven(params, name) ==
    LET j == CHOOSE i \in 1..Len(params) :
                 /\ params[i][1] = name
                 /\ \A l \in (i + 1)..Len(params) : params[l][1] # name
    IN  params[j][2]

\* C12: in a form-urlencoded body every key that occurs maps to the value of
\* its last occurrence alone, a single string, and getInput returns that
\* string for the key.
C12_FormLastValue ==
    parsedBody.kind = "form" =>
        LET params == URLSearchParams(getRawBody(event).v)
        IN  /\ \A i \in 1..Len(params) :
                  GetKey(parsedBody.value, params[i][1])
                      = StrV(LastGiven(params, params[i][1]))
            /\ \A j \in 1..Len(parsedBody.value.f) :
                  \E i \in 1..Len(params) : params[i][1] = parsedBody.value.f[j][1]
            /\ (last.op = "getInput" /\ \E i \in 1..Len(params) : params[i][1] = last.key) =>
                  last.out = Return(StrV(LastGiven(params, last.key)))

\* color=red&color= : the last value is the empty string, and it is returned
\* although a default was given.
C12_Witness ==
    /\ parsedBody.kind = "form"
    /\ event.body = StrV(<<"color", "=", "red", "&", "color", "=">>)
    /\ last.op = "getInput"
    /\ last.key = <<"color">>
    /\ last.def = StrV(<<"n/a">>)
    /\ last.out = Return(StrV(<<>>))


\* C13: getJsonBody returns the parsed value exactly when the parsed body is
\* tagged json; with tag form, text or empty it returns undefined, also for a
\* body that would parse as JSON.
C13_JsonBodyOnlyForJson ==
    (last.op = "getJsonBody" /\ last.out.err = NoError) =>
        /\ parsedBody.kind \in {"json", "form", "text", "empty"}
        /\ parsedBody.kind = "json" =>
               /\ last.out.val = parsedBody.value
               /\ last.out.val = JSONParse(getRawBody(event).v).val
        /\ parsedBody.kind # "json" => last.out.val = Undefined

\* A body that parses as JSON, sent without a JSON content type.
C13_Witness ==
    /\ last.op = "getJsonBody"
    /\ event.body = StrV(JsonHello)
    /\ JSONParse(getRawBody(event).v).ok
    /\ parsedBody.kind \in {"form", "text"}
    /\ last.out = Return(Undefined)


\* The text the claim says getRawBody gives for the event.
DecodedBody ==
    IF event.body.t \in {"absent", "undefined", "null"} \/ event.body = StrV(<<>>)
    THEN Undefined
    ELSE IF event.isBase64Encoded = BoolV(<<"true">>)
    THEN StrV(B64Decode(event.body.v))
    ELSE event.body

\* C14: getRawBody returns undefined for a null, undefined or empty body,
\* whatever the base64 flag; otherwise the base64-decoded text when the flag
\* is set and the body as it is when not; the body is parsed from that text.
C14_RawBodyDecoded ==
    /\ last.op = "getRawBody" => last.out = Return(DecodedBody)
    /\ parsedBody # Unset =>
           /\ parsedBody.kind = "empty" <=> (DecodedBody.t # "str" \/ DecodedBody.v = <<>>)
           /\ parsedBody.kind = "text" => parsedBody.value = DecodedBody
           /\ parsedBody.kind = "json" => parsedBody.value = JSONParse(DecodedBody.v).val
           /\ parsedBody.kind = "form" =>
                  \A i \in 1..Len(parsedBody.value.f) :
                      \E p \in 1..Len(URLSearchParams(DecodedBody.v)) :
                          URLSearchParams(DecodedBody.v)[p][1] = parsedBody.value.f[i][1]

\* The base64 text of {"nested":true} gives the payload back from getJsonBody.
C14_Witness ==
    /\ last.op = "getJsonBody"
    /\ event.isBase64Encoded = BoolV(<<"true">>)
    /\ event.body = StrV(<<"eyJuZXN0ZWQiOnRydWV9">>)
    /\ last.out.err = NoError
    /\ last.out.val.t = "obj"
    /\ GetKey(last.out.val, <<"nested">>) = BoolV(<<"true">>)


\* C15 as stated: a call of validate returns or fails with ValidationError,
\* never with another kind of failure.
C15_OnlyValidationFailure ==
    last.op = "validate" => last.out.err.name \in {"none", "ValidationError"}

\* C15, amended: a call of validate returns, fails with ValidationError, or,
\* with source "body" on a JSON content type and a body that does not parse,
\* fails with the BodyParseError raised while the body is resolved; whatever
\* the validator throws comes out as ValidationError, and sources "query"
\* and "path" fail with no other kind.
C15_ValidateFailureKinds ==
    last.op = "validate" =>
        /\ last.out.err.name \in {"none", "ValidationError", "BodyParseError"}
        /\ last.out.err.name = "BodyParseError" <=> (last.src = "body" /\ MalformedJson)
        /\ (last.mode \in {"reject", "crash", "crashRaw"}
              /\ last.out.err.name # "BodyParseError") =>
               last.out.err.name = "ValidationError"
        /\ last.mode \in {"pass", "strip"} =>
               last.out.err.name \in {"none", "BodyParseError"}

\* A validator that throws a plain Error on a well-formed JSON body.
C15_Witness ==
    /\ last.op = "validate"
    /\ last.src = "body"
    /\ last.mode = "crash"
    /\ parsedBody.kind = "json"
    /\ last.out.err.name = "ValidationError"
    /\ last.out.val = Undefined


\* What the validator of the last call throws, if it throws.
ThrownByValidator ==
    ValidatorRun(last.mode, Undefined).err

\* A call of validate whose validator was invoked and threw.
ValidatorThrew ==
    /\ last.op = "validate"
    /\ last.mode \in {"reject", "crash", "crashRaw"}
    /\ last.out.err.name # "BodyParseError"

\* C16 as stated: a ValidationError of the validator goes on unchanged; any
\* other failure becomes a ValidationError with the failure's message as its
\* reason and the failure as its details.
C16_WrapsWithOriginalMessage ==
    ValidatorThrew =>
        IF ThrownByValidator.name = "ValidationError"
        THEN last.out = Throw(ThrownByValidator)
        ELSE /\ last.out.err.name = "ValidationError"
             /\ last.out.err.message = ThrownByValidator.message
             /\ last.out.err.details = ErrAsValue(ThrownByValidator)

\* C16, amended: a ValidationError of the validator goes on unchanged; any
\* other failure becomes a ValidationError with the failure as its details,
\* and as its reason the failure's message when the failure is an Error and
\* the text "Validation failed" when it is not.
C16_NormalizesValidatorFailure ==
    ValidatorThrew =>
        IF ThrownByValidator.name = "ValidationError"
        THEN last.out = Throw(ThrownByValidator)
        ELSE /\ last.out.err.name = "ValidationError"
             /\ last.out.err.message = IF ThrownByValidator.name = "Error"
                                       THEN ThrownByValidator.message
                                       ELSE <<"Validation failed">>
             /\ last.out.err.details = ErrAsValue(ThrownByValidator)
             /\ last.out.val = Undefined

\* A thrown value that is no Error, wrapped under the fixed reason.
C16_Witness ==
    /\ last.op = "validate"
    /\ last.src = "query"
    /\ last.mode = "crashRaw"
    /\ last.out.err.name = "ValidationError"
    /\ last.out.err.message = <<"Validation failed">>
    /\ last.out.err.details.v = <<"oops">>


\* The mapping, or an empty one when the event has none.
MappingOrEmpty(mapping) ==
    IF mapping.t = "obj" THEN mapping ELSE ObjV(<<>>)

\* The value the claim says validate hands to the validator.
ResolvedData ==
    CASE last.src = "body" ->
           IF parsedBody.kind = "json" THEN parsedBody.value ELSE Undefined
      [] last.src = "query" -> MappingOrEmpty(event.queryStringParameters)
      [] last.src = "path" -> MappingOrEmpty(event.pathParameters)

\* C17: validate hands the validator the parsed JSON body, or undefined when
\* the body is not tagged json, for "body"; the event's single-value
\* queryStringParameters, or an empty mapping, for "query"; the event's
\* pathParameters, or an empty mapping, for "path".  Seen through a validator
\* that returns its argument and one that returns it wrapped; a null mapping
\* is no failure.
C17_ValidateResolvesData ==
    last.op = "validate" =>
        /\ (last.mode = "pass" /\ last.out.err = NoError) =>
               last.out.val = ResolvedData
        /\ (last.mode = "strip" /\ last.out.err = NoError) =>
               last.out.val = ObjV(<< <<<<"stripped">>, ResolvedData>> >>)
        /\ (last.mode \in {"pass", "strip"} /\ last.src \in {"query", "path"}) =>
               last.out.err = NoError

\* The HTTP adapter handing over the gateway's mapping, not the one derived
\* from the raw query string.
C17_Witness ==
    /\ last.op = "validate"
    /\ adapter = "http"
    /\ last.src = "query"
    /\ last.mode = "pass"
    /\ GetKey(rawQueryMap, <<"filter">>) = StrV(<<"one", ",", "two">>)
    /\ last.out = Return(ObjV(<< <<<<"filter">>, StrV(<<"gateway">>)>> >>))


\* C18: when the validator returns, validate returns the validator's value,
\* which need not be the data it was handed, and returns it as it is.
C18_ReturnsValidatorOutput ==
    (last.op = "validate" /\ last.out.err = NoError) =>
        /\ last.mode \in {"pass", "strip"}
        /\ last.out = ValidatorRun(last.mode, ResolvedData)
        /\ last.mode = "strip" => last.out.val # ResolvedData

\* A validator that returns a transformed body.
C18_Witness ==
    /\ last.op = "validate"
    /\ last.src = "body"
    /\ last.mode = "strip"
    /\ parsedBody.kind = "json"
    /\ last.out = Return(ObjV(<< <<<<"stripped">>, parsedBody.value>> >>))


\* The positions in a header mapping whose name is the given one up to case.
MatchingHeaders(mapping, name) ==
    { i \in 1..Len(MappingOrEmpty(mapping).f) :
        ToLowerCase(MappingOrEmpty(mapping).f[i][1]) = ToLowerCase(name) }

\* The least of a non-empty set of positions.
FirstOf(positions) ==
    CHOOSE i \in positions : \A j \in positions : i <= j

\* getHeader gives one answer for all spellings of the requested name.
SameForAllSpellings ==
    \A n \in HeaderNames :
        ToLowerCase(n) = ToLowerCase(last.key) =>
            getHeader(adapter, event, n, last.def) = last.out.val

\* C19 as stated: getHeader returns the value of every header stored under a
\* name that equals the requested one up to case, answers alike for names
\* that differ in case only, and gives the default when nothing matches or
\* the matched value is null.
C19_EveryMatchingHeader ==
    last.op = "getHeader" =>
        /\ \A i \in MatchingHeaders(event.headers, last.key) :
              last.out.val = Coalesce(event.headers.f[i][2], last.def)
        /\ SameForAllSpellings
        /\ (MatchingHeaders(event.headers, last.key) = {}
              /\ MatchingHeaders(event.multiValueHeaders, last.key) = {}) =>
               last.out.val = last.def

\* C19, amended: getHeader answers alike for names that differ in case only
\* and returns the value of the first header of the mapping, in its order,
\* whose name equals the requested one up to case: the default when that
\* value is null, and, when no single-value header matches, the default on
\* the HTTP adapter and the REST adapter's multi-value answer.
C19_FirstMatchingHeader ==
    last.op = "getHeader" =>
        /\ SameForAllSpellings
        /\ MatchingHeaders(event.headers, last.key) # {} =>
               last.out.val =
                   Coalesce(event.headers.f[FirstOf(MatchingHeaders(event.headers, last.key))][2],
                            last.def)
        /\ (MatchingHeaders(event.headers, last.key) = {} /\ adapter = "http") =>
               last.out.val = last.def
        /\ (MatchingHeaders(event.headers, last.key) = {}
              /\ MatchingHeaders(event.multiValueHeaders, last.key) = {}) =>
               last.out.val = last.def

\* A header stored in upper case, asked for in mixed case.
C19_Witness ==
    /\ last.op = "getHeader"
    /\ last.key = <<"Content-Type">>
    /\ last.def = StrV(<<"n/a">>)
    /\ event.headers = ObjV(<<CT("CONTENT-TYPE", StrV(<<" ", "application/json", " ">>))>>)
    /\ last.out = Return(StrV(<<" ", "application/json", " ">>))


\* The first entry of a multi-value header, undefined when it has none.
FirstEntry(values) ==
    IF values.t = "arr" /\ Len(values.a) > 0 THEN values.a[1] ELSE Undefined

\* C20: the REST adapter looks a header up in the single-value mapping first
\* and answers from its first match up to case, a null value included (then
\* nothing is found and the multi-value mapping is not read); with no
\* single-value match it answers with the first entry of the first matching
\* multi-value header; with no match at all nothing is found.
C20_RestHeaderLookupOrder ==
    (adapter = "rest" /\ last.op = "getHeader") =>
        LET singles == MatchingHeaders(event.headers, last.key)
            multis == MatchingHeaders(event.multiValueHeaders, last.key)
        IN  /\ singles # {} =>
                   last.out.val = Coalesce(event.headers.f[FirstOf(singles)][2], last.def)
            /\ (singles = {} /\ multis # {}) =>
                   last.out.val =
                       Coalesce(FirstEntry(event.multiValueHeaders.f[FirstOf(multis)][2]),
                                last.def)
            /\ (singles = {} /\ multis = {}) => last.out.val = last.def

\* A null single-value header hides the multi-value header of the same name.
C20_Witness ==
    /\ adapter = "rest"
    /\ last.op = "getHeader"
    /\ last.key = <<"Content-Type">>
    /\ last.def = StrV(<<"n/a">>)
    /\ event.headers = ObjV(<<CT("content-type", Null)>>)
    /\ MatchingHeaders(event.multiValueHeaders, last.key) # {}
    /\ FirstEntry(event.multiValueHeaders.f[1][2]) = StrV(<<"application/json">>)
    /\ last.out = Return(StrV(<<"n/a">>))


\* C21: getPathParam returns the value stored under the key in
\* pathParameters when there is one and it is not null; otherwise, for a
\* missing key, a null value, or a null or missing mapping, the default; it
\* never fails.
C21_PathParamOrDefault ==
    last.op = "getPathParam" =>
        /\ last.out.err = NoError
        /\ IF /\ event.pathParameters.t = "obj"
              /\ \E i \in 1..Len(event.pathParameters.f) :
                    /\ event.pathParameters.f[i][1] = last.key
                    /\ event.pathParameters.f[i][2].t \notin {"null", "undefined"}
           THEN \E i \in 1..Len(event.pathParameters.f) :
                    /\ event.pathParameters.f[i][1] = last.key
                    /\ last.out.val = event.pathParameters.f[i][2]
           ELSE last.out.val = last.def

\* A null value under the key gives way to the default.
C21_Witness ==
    /\ last.op = "getPathParam"
    /\ last.key = <<"id">>
    /\ last.def = StrV(<<"n/a">>)
    /\ GetKey(event.pathParameters, <<"id">>) = Null
    /\ last.out = Return(StrV(<<"n/a">>))


\* C22: getQueryStrs returns a mapping whose keys are exactly the listed
\* keys, each holding what getQueryStr returns for that key and the same
\* default, whatever the other keys are.
C22_QueryStrsPerKey ==
    last.op = "getQueryStrs" =>
        /\ last.out.err = NoError
        /\ last.out.val.t = "obj"
        /\ \A i \in 1..Len(last.keys) :
              /\ HasKey(last.out.val, last.keys[i])
              /\ GetKey(last.out.val, last.keys[i])
                     = getQueryStr(adapter, event, rawQueryMap, last.keys[i], last.def)
        /\ \A j \in 1..Len(last.out.val.f) :
              /\ \E i \in 1..Len(last.keys) : last.keys[i] = last.out.val.f[j][1]
              /\ \A k \in 1..Len(last.out.val.f) :
                    last.out.val.f[k][1] = last.out.val.f[j][1] => k = j

\* A missing key listed twice around a key that is there: the default for
\* the one, the joined value for the other.
C22_Witness ==
    /\ last.op = "getQueryStrs"
    /\ last.keys = << <<"missing">>, <<"filter">>, <<"missing">> >>
    /\ last.def = StrV(<<"n/a">>)
    /\ last.out = Return(ObjV(<< <<<<"missing">>, StrV(<<"n/a">>)>>,
                                 <<<<"filter">>, StrV(<<"one", ",", "two">>)>> >>))


\* A field of the request context, missing when there is no context.
ContextField(name) ==
    IF event.requestContext.t = "obj" THEN GetKey(event.requestContext, name) ELSE Absent

\* C23: getRequestTimeEpoch returns the context's timeEpoch when it is a
\* number, else its requestTimeEpoch when that is a number, else undefined,
\* also without a request context; a timeEpoch that is no number does not
\* stop the second lookup.
C23_RequestTimeEpoch ==
    last.op = "getRequestTimeEpoch" =>
        last.out = Return(IF ContextField(<<"timeEpoch">>).t = "num"
                          THEN ContextField(<<"timeEpoch">>)
                          ELSE IF ContextField(<<"requestTimeEpoch">>).t = "num"
                          THEN ContextField(<<"requestTimeEpoch">>)
                          ELSE Undefined)

\* A timeEpoch that is a text, next to a numeric requestTimeEpoch.
C23_Witness ==
    /\ last.op = "getRequestTimeEpoch"
    /\ ContextField(<<"timeEpoch">>) = StrV(<<"soon">>)
    /\ last.out = Return(NumV(<<"7">>))


\* C24: no step of a request, the construction and every accessor and
\* validate call included, whether it returns or throws, changes any field
\* of the event.
C24_EventNeverMutated ==
    [][ /\ event' = event
        /\ \A field \in DOMAIN event : event'[field] = event[field]
      ]_vars

\* A failing validate after a body accessor, on an event with a query
\* mapping and a base64 body.
C24_Witness ==
    /\ calls = 2
    /\ last.op = "validate"
    /\ last.out.err.name = "ValidationError"
    /\ parsedBody # Unset
    /\ event.isBase64Encoded = BoolV(<<"true">>)
    /\ event \in Events


-----------------------------------------------------------------------------
(* Response builders: what the last call was given and what it returned *)

BuilderArg(i) ==
    last.def.a[i]

Returned(field) ==
    GetKey(last.out.val, <<field>>)

\* The caller's headers argument as a mapping (none given: the empty one).
GivenHeaders(i) ==
    Coalesce(BuilderArg(i), ObjV(<<>>))

KeysOf(obj) ==
    {obj.f[i][1] : i \in 1..Len(obj.f)}

\* Every caller header other than k is in the result with the caller's value,
\* and the result has no entry besides these and k.
KeepsCallerHeadersBut(i, k) ==
    /\ KeysOf(Returned("headers")) = KeysOf(GivenHeaders(i)) \cup {k}
    /\ \A h \in KeysOf(GivenHeaders(i)) \ {k} :
           GetKey(Returned("headers"), h) = GetKey(GivenHeaders(i), h)

\* C25 as stated: redirect returns an empty body and the caller's headers
\* merged with the Location entry, and a Location header supplied by the caller
\* is the one in the result.
C25_CallerLocationWins ==
    last.op = "redirect" =>
        /\ Returned("body") = StrV(<<>>)
        /\ KeepsCallerHeadersBut(3, <<"Location">>)
        /\ Returned("headers").t = "obj"
        /\ GetKey(Returned("headers"), <<"Location">>)
               = IF HasKey(GivenHeaders(3), <<"Location">>)
                 THEN GetKey(GivenHeaders(3), <<"Location">>)
                 ELSE BuilderArg(1)

\* C25 amended: redirect returns the status given (302 when none), an empty
\* body, and the caller's headers merged with the Location entry; the Location
\* entry of the result is always the location argument, also when the caller
\* supplies a header named Location, and every other caller header is kept.
C25_LocationArgumentWins ==
    last.op = "redirect" =>
        /\ Returned("statusCode")
               = (IF BuilderArg(2) = Undefined THEN NumV(<<"302">>) ELSE BuilderArg(2))
        /\ Returned("body") = StrV(<<>>)
        /\ KeepsCallerHeadersBut(3, <<"Location">>)
        /\ GetKey(Returned("headers"), <<"Location">>) = BuilderArg(1)

C25_Witness ==
    /\ last.op = "redirect"
    /\ HasKey(GivenHeaders(3), <<"Location">>)
    /\ GetKey(GivenHeaders(3), <<"Location">>) # BuilderArg(1)
    /\ HasKey(GivenHeaders(3), <<"x-trace">>)
    /\ GetKey(Returned("headers"), <<"Location">>) = BuilderArg(1)

\* C26: json returns the status given (200 when none), the JSON text of the
\* body, and headers holding every caller header plus content-type; the
\* content-type entry is always application/json, also when the caller
\* supplies a header under that key.
C26_JsonResponse ==
    last.op = "json" =>
        /\ Returned("statusCode")
               = (IF BuilderArg(2) = Undefined THEN NumV(<<"200">>) ELSE BuilderArg(2))
        /\ Returned("body") = JSONStringify(BuilderArg(1))
        /\ KeepsCallerHeadersBut(3, <<"content-type">>)
        /\ GetKey(Returned("headers"), <<"content-type">>) = StrV(<<"application/json">>)

C26_Witness ==
    /\ last.op = "json"
    /\ GetKey(GivenHeaders(3), <<"content-type">>) = StrV(<<"text/html">>)
    /\ HasKey(GivenHeaders(3), <<"x-trace">>)
    /\ BuilderArg(1).t = "obj"
    /\ GetKey(Returned("headers"), <<"content-type">>) = StrV(<<"application/json">>)


\* C27: body parsing is lazy.  A step that constructs a request, for either
\* adapter, leaves the cache unset and unwritten and does not throw
\* BodyParseError, whatever the body and content type; BodyParseError is thrown
\* only by a call that needs the parsed body; and with a JSON content type and
\* a malformed body the first such call, made on the still unset cache, throws it.
C27_LazyBodyParsing ==
    [][ /\ (adapter = "none" /\ adapter' # "none") =>
               /\ parsedBody' = Unset
               /\ cacheWrites' = 0
               /\ last'.out.err.name # "BodyParseError"
        /\ calls' = 0 => (parsedBody' = Unset /\ cacheWrites' = 0)
        /\ last'.out.err.name = "BodyParseError" =>
               (calls' = calls + 1 /\ NeedsParsedBody(last'))
        /\ (MalformedJson /\ calls' = calls + 1 /\ NeedsParsedBody(last')) =>
               (parsedBody = Unset /\ last'.out.err.name = "BodyParseError")
      ]_vars

\* A request constructed over a malformed JSON body: construction went through
\* with the cache unset, and the failure came with the first call, a getJsonBody.
C27_Witness ==
    /\ MalformedJson
    /\ adapter = "rest"
    /\ calls = 1
    /\ last.op = "getJsonBody"
    /\ last.out.err.name = "BodyParseError"
    /\ parsedBody = Unset
    /\ cacheWrites = 0


\* The calls the claim lists as not needing the parsed body.
BodyFreeCall(c) ==
    \/ c.op \in {"getPathParam", "getQueryStr", "getQueryStrs", "getHeader", "getMethod",
                 "getPath", "getRawBody", "getRequestTimeEpoch"}
    \/ c.op = "validate" /\ c.src \in {"query", "path"}

\* C28: a call of getPathParam, getQueryStr, getQueryStrs, getHeader,
\* getMethod, getPath, getRawBody, getRequestTimeEpoch or validate with source
\* query or path leaves the parsed-body cache as it was and does not throw
\* BodyParseError, whatever the body and content type; a step that changes the
\* cache is a call of getInput, getInputs, getJsonBody or validate with source
\* body.
C28_BodyFreeAccessors ==
    [][ /\ (calls' = calls + 1 /\ BodyFreeCall(last')) =>
               /\ parsedBody' = parsedBody
               /\ cacheWrites' = cacheWrites
               /\ last'.out.err.name # "BodyParseError"
        /\ (parsedBody' # parsedBody \/ cacheWrites' # cacheWrites) =>
               /\ calls' = calls + 1
               /\ \/ last'.op \in {"getInput", "getInputs", "getJsonBody"}
                  \/ last'.op = "validate" /\ last'.src = "body"
      ]_vars

\* Two calls that need no body on a request whose JSON body is malformed: the
\* second, validate with source query, ran its validator and the cache is
\* still unset.
C28_Witness ==
    /\ MalformedJson
    /\ calls = 2
    /\ last.op = "validate"
    /\ last.src = "query"
    /\ last.mode = "pass"
    /\ last.out.err = NoError
    /\ parsedBody = Unset


\* What a call gives on a request instance newly constructed for the adapter
\* over the event: the cache unset, the raw query parsed by the constructor.
OnFreshInstance(ad, e, c) ==
    CASE c.op = "getPathParam" -> Return(getPathParam(e, c.key, c.def))
      [] c.op = "getQueryStr" ->
           Return(getQueryStr(ad, e, parseRawQuery(Coalesce(e.rawQueryString, StrV(<<>>))),
                              c.key, c.def))
      [] c.op = "getQueryStrs" ->
           Return(getQueryStrs(ad, e, parseRawQuery(Coalesce(e.rawQueryString, StrV(<<>>))),
                               c.keys, c.def))
      [] c.op = "getHeader" -> Return(getHeader(ad, e, c.key, c.def))
      [] c.op = "getMethod" -> Return(getMethod(ad, e))
      [] c.op = "getPath" -> Return(getPath(ad, e))
      [] c.op = "getRequestTimeEpoch" -> Return(getRequestTimeEpoch(e))
      [] c.op = "getRawBody" -> Return(getRawBody(e))
      [] c.op = "getInput" -> getInput(ad, e, Unset, c.key, c.def).out
      [] c.op = "getInputs" -> getInputs(ad, e, Unset, c.keys, c.def).out
      [] c.op = "getJsonBody" -> getJsonBody(ad, e, Unset).out
      [] OTHER -> validate(ad, e, Unset, c.mode, c.src).out

\* C29: the outcome of every accessor call, value or failure, is the outcome
\* the same call has on a newly constructed instance of the same adapter over
\* the same event, whatever calls were made before it and whether the
\* parsed-body cache was already set or not; so two instances over equal
\* events answer alike after any two histories.
C29_HistoryIndependent ==
    [][ calls' = calls + 1 => last'.out = OnFreshInstance(adapter, event, last') ]_vars

\* A second call on a request whose JSON body is in the cache: getInput
\* answers with the member, as it does on a new instance.
C29_Witness ==
    /\ calls = 2
    /\ cacheWrites = 1
    /\ parsedBody.kind = "json"
    /\ last.op = "getInput"
    /\ last.key = <<"hello">>
    /\ last.out = Return(StrV(<<"world">>))
    /\ last.out = OnFreshInstance(adapter, event, last)


\* An event body that is not empty, has the base64 flag set and decodes to the
\* empty text.
DecodesToEmpty ==
    /\ event.body.t = "str"
    /\ event.body.v # <<>>
    /\ event.isBase64Encoded = BoolV(<<"true">>)
    /\ B64Decode(event.body.v) = <<>>

\* C30: whenever the parsed-body cache is set, its tag is empty exactly when
\* the decoded raw body is absent or the empty text; a base64 body that decodes
\* to the empty text is cached as empty and no call that needs the body fails
\* on it, also under a JSON content type, while getRawBody returns the empty
\* text for it and not undefined.
C30_EmptyTagIffNoBody ==
    /\ parsedBody # Unset =>
           (parsedBody.kind = "empty"
                <=> (DecodedBody = Undefined \/ DecodedBody = StrV(<<>>)))
    /\ (DecodesToEmpty /\ NeedsParsedBody(last)) =>
           /\ parsedBody = ParsedBody("empty", Undefined)
           /\ last.out.err.name # "BodyParseError"
    /\ (DecodesToEmpty /\ last.op = "getRawBody") => last.out = Return(StrV(<<>>))

\* The base64 body "{}" (characters outside the alphabet) under a JSON content
\* type: the first call cached it as empty, and getRawBody returns "".
C30_Witness ==
    /\ DecodesToEmpty
    /\ adapter = "rest"
    /\ normalizedContentType(adapter, event) = StrV(<<"application/json">>)
    /\ calls = 2
    /\ parsedBody = ParsedBody("empty", Undefined)
    /\ last.op = "getRawBody"
    /\ last.out = Return(StrV(<<>>))

=============================================================================
